---- MODULE Spec2Model ----
(***************************************************************************)
(* Chat-based offer negotiation of app/generator.py: Generator.chat_for_   *)
(* offer driven by concurrent HTTP requests against the class-level        *)
(* _chat_sessions dictionary.                                              *)
(*                                                                         *)
(* A turn is one invocation of chat_for_offer.  Every access of a turn to  *)
(* shared state (the dictionary, a session's message list, the model       *)
(* provider, the inventory storage) is one step; the local computation     *)
(* between two accesses belongs to the step that follows it.  Session      *)
(* dictionaries are objects: the store maps a session id to a reference,   *)
(* and a turn keeps the reference it loaded, as the Python code does.      *)
(***************************************************************************)
EXTENDS Naturals, Sequences, FiniteSets, TLC

\* ---------------------------------------------------------------- bounds
MaxRequests == 2      \* invocations of chat_for_offer in one behaviour
MaxCalls == 2         \* tool calls in one model response
MaxOffers == 2        \* rows the offers table can take up

Turns == {1, 2}                   \* request workers that may run at once
SessionIds == {"s1", "s2"}
FirstSession == "s1"              \* ids are interchangeable: the first request names this one
Replies == {"r1"}                 \* assistant message texts
\* the text of the n-th request's user message: texts are opaque to the code
MsgOf(n) == <<"m", n>>

\* a session dict is named by the number of the request that built it
NoObj == 0
Objs == 1..MaxRequests

\* ------------------------------------------------------- customer profile
Missing == "<missing>"            \* a key the dict does not hold
ProfileKeys == {"customer_name", "phone_number", "address", "customer_email", "resource"}

NoneInfo == [isNone |-> TRUE, customer_name |-> Missing, phone_number |-> Missing,
             address |-> Missing, customer_email |-> Missing, resource |-> Missing]
EmptyInfo == [NoneInfo EXCEPT !.isNone = FALSE]
InfoA == [isNone |-> FALSE, customer_name |-> "Ann", phone_number |-> "111",
          address |-> "A St", customer_email |-> "ann@x", resource |-> "w1"]
InfoB == [isNone |-> FALSE, customer_name |-> "Bob", phone_number |-> "222",
          address |-> "B Rd", customer_email |-> Missing, resource |-> Missing]

NoDate == "None"

\* the (customer_info, project_start) pairs a caller passes
Bootstraps == { <<NoneInfo, NoDate>>, <<EmptyInfo, "2025-03-01">>, <<InfoA, "2025-03-01">>,
                <<InfoB, "2025-04-01">>, <<InfoB, NoDate>> }

\* variant: `customer_info is None`, which lets the empty dict through
FalsyNoneOnly(ci) == ci.isNone

\* `not customer_info`: None and the empty dict are both falsy
Falsy(ci) == ci.isNone \/ \A k \in ProfileKeys : ci[k] = Missing

\* dict.get(key, "")
Get(ci, k) == IF ci[k] = Missing THEN "" ELSE ci[k]

\* --------------------------------------------------------------- messages
SystemMsg == [role |-> "system", content |-> "chat_system_prompt"]
UserMsg(m) == [role |-> "user", content |-> m]
AssistantMsg(c) == [role |-> "assistant", content |-> c]
ToolCallMsg(calls) == [role |-> "assistant", tool_calls |-> calls]
\* variant: a tool message that does not name the call it answers
ToolMsgNoId(id, payload) == [role |-> "tool", tool_call_id |-> "", content |-> payload]
ToolMsg(id, payload) == [role |-> "tool", tool_call_id |-> id, content |-> payload]

\* ------------------------------------------------------------ tool calls
\* arguments of a tool call: the JSON text the model produced
BadJson == [json |-> FALSE]
InvArgs == [json |-> TRUE, query |-> "q1"]
\* the declared parameters, and two keys the tool schema does not declare
OfferArgs == [json |-> TRUE, task_description |-> "td", bill_of_materials |-> "bom",
              time |-> "2w", materials_cost |-> 2, labor_cost |-> 1, total_cost |-> 3,
              status |-> "Accepted", customer_name |-> "Eve"]
OfferArgsBadBom == [OfferArgs EXCEPT !.bill_of_materials = "bom_missing_unit"]
\* arguments that leave out parameters the tool schema requires
OmittedArgs == {"time", "total_cost"}
OfferArgsOmitting == [k \in (DOMAIN OfferArgs) \ OmittedArgs |-> OfferArgs[k]]
\* arguments whose total is not the sum of the two costs
OfferArgsBadTotal == [OfferArgs EXCEPT !.total_cost = 4]

Inv == [name |-> "get_inventory_data", arguments |-> InvArgs]
InvBadJson == [name |-> "get_inventory_data", arguments |-> BadJson]
Final == [name |-> "generate_final_offer", arguments |-> OfferArgs]
FinalBadBom == [name |-> "generate_final_offer", arguments |-> OfferArgsBadBom]
FinalOmitting == [name |-> "generate_final_offer", arguments |-> OfferArgsOmitting]
FinalBadTotal == [name |-> "generate_final_offer", arguments |-> OfferArgsBadTotal]
Other == [name |-> "other_tool", arguments |-> InvArgs]

CallShapeLists == {
    <<Inv>>, <<InvBadJson>>, <<Final>>, <<FinalBadBom>>, <<Other>>,
    <<FinalOmitting>>, <<FinalBadTotal>>,
    <<Inv, Final>>, <<Final, Inv>>,
    <<Inv, Other, Final>> }

CallId(i) == IF i = 1 THEN "call_1" ELSE IF i = 2 THEN "call_2" ELSE "call_3"

\* the tool_calls lists a response may carry: up to MaxCalls calls, ids distinct
ToolCallLists ==
    { [i \in 1..Len(l) |-> [id |-> CallId(i), name |-> l[i].name,
                             arguments |-> l[i].arguments]] :
      l \in {k \in CallShapeLists : Len(k) <= MaxCalls} }

\* what client.chat.completions.create may do: raise, or return a message
\* with content, or a message with tool calls
ModelErrors == {"model_unavailable", "model_timeout"}
Responses ==
    { [kind |-> "raise", error |-> e, content |-> "", tool_calls |-> <<>>] : e \in ModelErrors }
    \cup { [kind |-> "ok", error |-> "", content |-> c, tool_calls |-> <<>>] : c \in Replies }
    \cup { [kind |-> "ok", error |-> "", content |-> "", tool_calls |-> l] : l \in ToolCallLists }
NoResponse == [kind |-> "none", error |-> "", content |-> "", tool_calls |-> <<>>]

\* ---------------------------------------------------- get_inventory_data
DbOutcomes == {"no_database", "search_raises", "no_items", "items"}
\* the storage behaviours drawn during a chat turn: one failing, one answering
ChatDbOutcomes == {"search_raises", "items"}
\* the number of rows the search returns when it finds any
ItemsFound == 2
\* a row of the inventory table, as dict(item)
Row(i) ==
    [id |-> i, name |-> "name", category |-> "cat", description |-> "desc",
     brand |-> "brand", default_price |-> 5, active |-> TRUE, created_at |-> "t0"]
\* what search_inventory_items returns when it returns
SearchRows(db) == IF db = "items" THEN [i \in 1..ItemsFound |-> Row(i)] ELSE <<>>
\* lines 80-88: the fields handed to the model
FormatItem(item) ==
    [id |-> item.id, name |-> item.name, category |-> item.category,
     description |-> item.description, brand |-> item.brand,
     default_price |-> item.default_price, active |-> item.active]

\* variant: a search that is tried again after it raised
InventorySearchesRetried(db) ==
    IF db = "no_database" THEN 0 ELSE IF db = "search_raises" THEN 2 ELSE 1

\* lines 58-69: the search is skipped without a database, made once otherwise
InventorySearches(db) == IF db = "no_database" THEN 0 ELSE 1

\* variant: without the branch for an empty search result
get_inventory_data_unbranched(query, db) ==
    IF db = "no_database"
    THEN [error |-> "Database connection not available", items |-> <<>>]
    ELSE IF db = "search_raises"
    THEN [error |-> "Error fetching inventory data", items |-> <<>>]
    ELSE LET formatted_items == [i \in 1..Len(SearchRows(db)) |-> FormatItem(SearchRows(db)[i])]
         IN  [query |-> query, items_found |-> Len(formatted_items),
              items |-> formatted_items]

\* lines 57-100
get_inventory_data(query, db) ==
    IF db = "no_database"
    THEN [error |-> "Database connection not available", items |-> <<>>]
    ELSE IF db = "search_raises"
    THEN [error |-> "Error fetching inventory data", items |-> <<>>]
    ELSE IF SearchRows(db) = <<>>
    THEN [message |-> <<"No inventory items found for query: ", query>>, items |-> <<>>]
    ELSE LET formatted_items == [i \in 1..Len(SearchRows(db)) |-> FormatItem(SearchRows(db)[i])]
         IN  [query |-> query, items_found |-> Len(formatted_items),
              items |-> formatted_items]
\* one invocation of get_inventory_data: the query, what the storage did,
\* and the result handed back
Lookup(query, db) == [query |-> query, db |-> db, result |-> get_inventory_data(query, db)]
NoLookup == [query |-> "", db |-> "none", result |-> [none |-> TRUE]]

\* ------------------------------------------------------------ final offer
\* Materials(**mat) for every entry, PriceDetail(...), Finaloffer(...):
\* pydantic validation of the values handed over
ValidBom(b) == b \in {"bom", ""}
ValidDate(d) == d # NoDate

ArgGet(args, k, default) == IF k \in DOMAIN args THEN args[k] ELSE default

BuildBom(args) == ArgGet(args, "bill_of_materials", "")

BuildPrice(args) ==
    [Materials |-> ArgGet(args, "materials_cost", 0),
     Labor |-> ArgGet(args, "labor_cost", 0),
     Total |-> ArgGet(args, "total_cost", 0)]

\* variant: Finaloffer(**arguments) over the session values, so that keys of
\* the tool call win
BuildOfferArgsFirst(ci, ps, args) ==
    [customer_name |-> ArgGet(args, "customer_name", Get(ci, "customer_name")),
     phone_number |-> Get(ci, "phone_number"),
     address |-> Get(ci, "address"),
     task_description |-> ArgGet(args, "task_description", ""),
     bill_of_materials |-> BuildBom(args),
     time |-> ArgGet(args, "time", ""),
     resource |-> Get(ci, "resource"),
     status |-> ArgGet(args, "status", "Pending"),
     price |-> BuildPrice(args),
     project_start |-> ps,
     materials_ordered |-> FALSE]

\* lines 416-439
BuildOffer(ci, ps, args) ==
    [customer_name |-> Get(ci, "customer_name"),
     phone_number |-> Get(ci, "phone_number"),
     address |-> Get(ci, "address"),
     task_description |-> ArgGet(args, "task_description", ""),
     bill_of_materials |-> BuildBom(args),
     time |-> ArgGet(args, "time", ""),
     resource |-> Get(ci, "resource"),
     status |-> "Pending",
     price |-> BuildPrice(args),
     project_start |-> ps,
     materials_ordered |-> FALSE]

OfferValidates(ps, args) == ValidBom(BuildBom(args)) /\ ValidDate(ps)

\* ----------------------------------------------------------------- results
NoResult == [type |-> "none"]
\* an invocation and what it handed back
Outcome(r, res) == [req |-> r, result |-> res]
MessageResult(m) == [type |-> "message", message |-> m]
OfferResult(o) == [type |-> "offer", offer |-> o]
\* raise Exception(f"Error in chat for offer: {str(e)}")
Failure(cause) == [type |-> "error", exception |-> "Exception", cause |-> cause]

SessionNotFound == "Session expired or not found"

\* ------------------------------------------------------------------ state
VARIABLES
    store,      \* Generator._chat_sessions: session id -> session object or NoObj
    heap,       \* session objects: messages, customer_info, project_start
    pc,         \* where each turn stands in chat_for_offer
    req,        \* the arguments of the turn's invocation
    sess,       \* the turn's local `session` (and `messages`) reference
    resp,       \* the model response the turn is handling
    follow,     \* the content of the follow-up response
    idx,        \* position in the loop over tool_calls
    ncalls,     \* model calls the turn has issued
    lastCall,   \* the request sent to the model provider by the step just taken, if any
    out,        \* the outcome handed to a caller by the step just taken, if any
    nreq,       \* invocations of chat_for_offer begun so far
    pre         \* the stored transcript of the session id when the turn began

\* one invocation of generate_offer, run for two requests side by side
\* (lanes) under the same answers of the model and of the storage
VARIABLES
    op,         \* the entry point the behaviour exercises: "chat" or "generate"
    searches,   \* calls of database.search_inventory_items made by the step just taken
    lookup,     \* the get_inventory_data invocation of the step just taken, if any
    gpc,        \* where the invocation stands in generate_offer
    greq,       \* per lane: the offer_request
    gmsgs,      \* per lane: the local `messages` list
    gsent,      \* per lane: the model calls issued so far, in order
    gresp,      \* the first model response
    gidx,       \* position in the loop over tool_calls
    gparsed,    \* final_response.choices[0].message.parsed
    gout        \* per lane: what the invocation handed back

\* the offers table and the endpoints of main.py that work on it
VARIABLES
    offers,     \* the offers table: id -> row, or NoOffer
    served      \* the endpoint call of the step just taken and what came of it

\* the materials-ordered handler taken statement by statement
VARIABLES
    hpc,        \* where each client's materials-ordered request stands
    hread,      \* the flag each running handler has read
    hpair       \* the offer two requests arrived for together, as it was then

avars == <<offers, served, hpc, hread, hpair>>

gvars == <<gpc, greq, gmsgs, gsent, gresp, gidx, gparsed, gout>>

vars == <<store, heap, pc, req, sess, resp, follow, idx, ncalls, lastCall, out, nreq, pre,
          op, searches, lookup, gpc, greq, gmsgs, gsent, gresp, gidx, gparsed, gout,
          offers, served, hpc, hread, hpair>>

NoSession == [messages |-> <<>>, customer_info |-> NoneInfo, project_start |-> NoDate]
NoRequest == [n |-> 0, session_id |-> "s1", message |-> MsgOf(0),
              customer_info |-> NoneInfo, project_start |-> NoDate]
NoPre == [present |-> FALSE, messages |-> <<>>, after_offer |-> FALSE]

\* the invocations chat_for_offer(session_id, message, customer_info, project_start)
Requests ==
    { [n |-> n, session_id |-> s, message |-> MsgOf(n),
       customer_info |-> b[1], project_start |-> b[2]] :
      n \in 1..MaxRequests, s \in SessionIds, b \in Bootstraps }
NoOutcome == Outcome(NoRequest, NoResult)

\* `session_id not in self._chat_sessions`
SessionMissing(st, sid) == st[sid] = NoObj

\* variant: self._chat_sessions.clear()
DeleteAllSessions(st, sid) == [s \in SessionIds |-> NoObj]

\* line 442: del self._chat_sessions[session_id]
DeleteSession(st, sid) == [st EXCEPT ![sid] = NoObj]

\* variant: a handler that drops the session of a failed turn
AfterFailureDropped(st, sid) == [st EXCEPT ![sid] = NoObj]

\* lines 473-474: the handler wraps and re-raises; the dictionary is as it was
AfterFailure(st, sid) == st

\* variant: a session that forgets the project start
NewSessionWithoutStart(ci, ps) ==
    [messages |-> <<SystemMsg>>, customer_info |-> ci, project_start |-> NoDate]

\* the session dict built at lines 372-376
NewSession(ci, ps) ==
    [messages |-> <<SystemMsg>>, customer_info |-> ci, project_start |-> ps]

\* objects still referenced by the dictionary or by a running turn
Referenced(st, ss) == {st[s] : s \in SessionIds} \cup {ss[t] : t \in Turns}
\* unreferenced objects are reclaimed
Collect(h, st, ss) == [o \in Objs |-> IF o \in Referenced(st, ss) THEN h[o] ELSE NoSession]
\* client.chat.completions.create(model, messages[, tools]) by request n
ModelCall(n, messages, tools) == [n |-> n, messages |-> messages, tools |-> tools]
NoCall == ModelCall(0, <<>>, FALSE)

\* ------------------------------------------------- generate_offer: data
Lanes == {1, 2}

\* offer_request: customer identity, resource, and the project fields.  The
\* customer_email and resource attributes read at lines 185 and 189 are those
\* of the OfferRequest of the specification.
GenRequest(who, mail, start, task) ==
    [customer_name |-> who, phone_number |-> IF who = "Ann" THEN "111" ELSE "222",
     address |-> IF who = "Ann" THEN "A St" ELSE "B Rd", customer_email |-> mail,
     resource |-> "w1", project_start |-> start, select_task |-> task,
     explaination |-> "ex", user_id |-> "u1"]
GenRequests ==
    { GenRequest(who, mail, start, task) :
        who \in {"Ann", "Bob"}, mail \in {"", "x@y"},
        start \in {"2025-03-01"}, task \in {"paint", "tile"} }
NoGenRequest == GenRequest("", "", NoDate, "")

PIIFields == {"customer_name", "phone_number", "address", "customer_email"}
\* the requests are equal in every field that is not customer identity
SameProject(r1, r2) == \A k \in (DOMAIN r1) \ PIIFields : r1[k] = r2[k]
\* the two requests run side by side
GenRequestPairs == { p \in GenRequests \X GenRequests : SameProject(p[1], p[2]) }

\* variant: a prompt that also names the customer
UserInputWithCustomer(r) ==
    [project_start |-> r.project_start, select_task |-> r.select_task,
     explaination |-> r.explaination, user_id |-> r.user_id,
     customer_name |-> r.customer_name]

\* lines 107-123: the request fields the prompt text is built from
UserInput(r) ==
    [project_start |-> r.project_start, select_task |-> r.select_task,
     explaination |-> r.explaination, user_id |-> r.user_id]

\* lines 126-129
GenSystemMsg == [role |-> "system", content |-> "system_prompt"]
GenMessages(r) == <<GenSystemMsg, [role |-> "user", content |-> UserInput(r)]>>

\* the parsed structured output of the second call: every field of the
\* generation-only shape is present; its values are the model's
GenContent(status, price, start, ordered) ==
    [task_description |-> "td", bill_of_materials |-> "bom", time |-> "2w",
     status |-> status, price |-> price, project_start |-> start,
     materials_ordered |-> ordered]
Price(m, l, t) == [Materials |-> m, Labor |-> l, Total |-> t]
GenContents ==
    { GenContent("Pending", Price(2, 1, 3), "2025-03-01", FALSE),
      GenContent("Accepted", Price(2, 1, 3), "2025-03-01", FALSE),
      GenContent("Pending", Price(2, 1, 4), "2025-03-01", FALSE),
      GenContent("Pending", Price(2, 1, 3), "2025-05-05", FALSE),
      GenContent("Pending", Price(2, 1, 3), "2025-03-01", TRUE) }
\* message.parsed is None when the model refuses
NoContent == [none |-> TRUE]
\* what client.beta.chat.completions.parse may do: raise (transport, or
\* output that does not validate), or return a message with parsed content
ParseErrors == ModelErrors \cup {"model_output_invalid"}
ParseOutcomes ==
    { [kind |-> "raise", error |-> e, parsed |-> NoContent] : e \in ParseErrors }
    \cup { [kind |-> "ok", error |-> "", parsed |-> c] : c \in GenContents \cup {NoContent} }

\* variant: every call made the way the first one is, with the tools and
\* without a response schema
GenCallUnconstrained(api, messages) ==
    [api |-> api, messages |-> messages, tools |-> TRUE, response_format |-> ""]

\* a model call of generate_offer: create(tools=self.tools) or
\* parse(response_format=GeneratedOfferContent)
GenCall(api, messages) ==
    [api |-> api, messages |-> messages, tools |-> api = "create",
     response_format |-> IF api = "parse" THEN "GeneratedOfferContent" ELSE ""]

\* variant: Finaloffer(..., status="Pending", project_start=offer_request.project_start,
\* materials_ordered=False), the engine applying the three values itself
MergeOfferEngineValues(r, g) ==
    [customer_name |-> r.customer_name, phone_number |-> r.phone_number,
     address |-> r.address, task_description |-> g.task_description,
     bill_of_materials |-> g.bill_of_materials, time |-> g.time,
     resource |-> r.resource, status |-> "Pending", price |-> g.price,
     project_start |-> r.project_start, materials_ordered |-> FALSE]

\* lines 181-194: Finaloffer(...) from the request and the generated content;
\* Finaloffer has no customer_email field, and the keyword is dropped
MergeOffer(r, g) ==
    [customer_name |-> r.customer_name, phone_number |-> r.phone_number,
     address |-> r.address, task_description |-> g.task_description,
     bill_of_materials |-> g.bill_of_materials, time |-> g.time,
     resource |-> r.resource, status |-> g.status, price |-> g.price,
     project_start |-> g.project_start, materials_ordered |-> g.materials_ordered]

\* variant: a handler that hands back what it has instead of raising
GenPartialOffer(cause) == [type |-> "offer", offer |-> [task_description |-> ""]]

\* raise Exception(f"Error generating offer: {str(e)}")
GenFailure(cause) == [type |-> "error", exception |-> "Exception", cause |-> cause]
GenReturn(o) == [type |-> "offer", offer |-> o]

GenIdle ==
    /\ searches = 0
    /\ lookup = NoLookup
    /\ gpc = "idle"
    /\ greq = [l \in Lanes |-> NoGenRequest]
    /\ gmsgs = [l \in Lanes |-> <<>>]
    /\ gsent = [l \in Lanes |-> <<>>]
    /\ gresp = NoResponse
    /\ gidx = 0
    /\ gparsed = NoContent
    /\ gout = [l \in Lanes |-> NoResult]

\* ------------------------------------------------- offers storage: data
OfferIds == 1..MaxOffers
NoOffer == [none |-> TRUE]

\* Literal["Pending", "Accepted", "Done"] of Finaloffer and UpdateStatus
StatusLiteral == {"Pending", "Accepted", "Done"}
\* valid_statuses of toggle_order_status
valid_statuses == {"Pending", "Accepted", "Done"}
\* the status values a caller may submit
SubmittedStatuses == {"Pending", "Accepted", "Done", "Cancelled"}

\* the statements run against the offers table
Select == "SELECT"
Insert == "INSERT"
Update == "UPDATE"
Delete == "DELETE"

\* what the storage may do to a call: answer, or fail to connect on the
\* first or on the second database call of the handler
DbFaults == {"none", "first", "second"}

\* the column values save_offer and update_offer write (lines 156-169,
\* 360-373): the fields of offer.dict() and the user id
RowOf(offer, user_id) ==
    [customer_name |-> offer.customer_name, phone_number |-> offer.phone_number,
     address |-> offer.address, customer_email |-> "",
     task_description |-> offer.task_description,
     bill_of_materials |-> offer.bill_of_materials, time |-> offer.time,
     resource |-> offer.resource, status |-> offer.status, price |-> offer.price,
     user_id |-> user_id, project_start |-> offer.project_start,
     materials_ordered |-> offer.materials_ordered]

\* variant: the offer handed to the generator carries the generated fields
\* of the row and the defaults of `.get(key, "")` for the others
FinalofferOfRowDefaults(row) ==
    [customer_name |-> "", phone_number |-> "", address |-> "",
     task_description |-> row.task_description,
     bill_of_materials |-> row.bill_of_materials, time |-> row.time,
     resource |-> "", status |-> row.status, price |-> row.price,
     project_start |-> row.project_start, materials_ordered |-> row.materials_ordered]

\* main.py lines 244-256: Finaloffer(...) from the row read
FinalofferOfRow(row) ==
    [customer_name |-> row.customer_name, phone_number |-> row.phone_number,
     address |-> row.address, task_description |-> row.task_description,
     bill_of_materials |-> row.bill_of_materials, time |-> row.time,
     resource |-> row.resource, status |-> row.status, price |-> row.price,
     project_start |-> row.project_start, materials_ordered |-> row.materials_ordered]

\* DEFAULT uuid_generate_v4(): a fresh id; ids are interchangeable and the
\* lowest free one is taken
FreeIds(tbl) == {i \in OfferIds : tbl[i] = NoOffer}
NewId(tbl) == CHOOSE i \in FreeIds(tbl) : \A j \in FreeIds(tbl) : i <= j

\* the requests, the model outputs and the parse outcomes the endpoints are
\* exercised with
ApiRequests ==
    { GenRequest("Ann", "", "2025-03-01", "paint"),
      GenRequest("Bob", "x@y", "2025-03-01", "tile") }
ApiContents ==
    { GenContent("Pending", Price(2, 1, 3), "2025-03-01", FALSE),
      GenContent("Accepted", Price(2, 1, 3), "2025-03-01", FALSE),
      GenContent("Cancelled", Price(2, 1, 3), "2025-03-01", FALSE) }
ApiParseOutcomes ==
    { r \in ParseOutcomes : r.kind = "ok" => r.parsed \in ApiContents \cup {NoContent} }

\* what generate_offer hands back for a request: the wrapped exception, for
\* any of the causes met on the way, or the merged offer of a parsed output
\* (Finaloffer(...) validates its status, schema.py line 34)
GenCauses == ParseErrors \cup {"JSONDecodeError", "AttributeError", "ValidationError"}
GenOutcomesOver(r, contents) ==
    { GenFailure(c) : c \in GenCauses }
    \cup { GenReturn(MergeOffer(r, g)) : g \in {c \in contents : c.status \in StatusLiteral} }

\* lines 206-231 of Generator.update_offer: the prompt is built from the
\* offer's generated fields and the user's message
UpdateInput(update_request, user_message) ==
    [task_description |-> update_request.task_description,
     bill_of_materials |-> update_request.bill_of_materials,
     time |-> update_request.time, status |-> update_request.status,
     project_start |-> update_request.project_start, price |-> update_request.price,
     materials_ordered |-> update_request.materials_ordered,
     user_message |-> user_message]
UpdateMessages(update_request, user_message) ==
    <<GenSystemMsg, [role |-> "user", content |-> UpdateInput(update_request, user_message)]>>

\* variant: a parse call that raises is made once more before giving up
update_offer_retried(user_message, update_request, parse) ==
    LET call == GenCall("parse", UpdateMessages(update_request, user_message)) IN
    [sent |-> IF parse.kind = "raise" THEN <<call, call>> ELSE <<call>>,
     result |-> IF parse.kind = "raise" THEN GenFailure(parse.error)
                ELSE IF parse.parsed = NoContent THEN GenFailure("AttributeError")
                ELSE IF parse.parsed.status \notin StatusLiteral
                THEN GenFailure("ValidationError")
                ELSE GenReturn(MergeOffer(update_request, parse.parsed))]

\* Generator.update_offer, lines 202-261: one parse call, then the merge of
\* the parsed content with the identity fields of update_request; `sent`
\* holds the model calls made, `result` what is handed back
update_offer(user_message, update_request, parse) ==
    [sent |-> <<GenCall("parse", UpdateMessages(update_request, user_message))>>,
     result |-> IF parse.kind = "raise" THEN GenFailure(parse.error)
                ELSE IF parse.parsed = NoContent THEN GenFailure("AttributeError")
                ELSE IF parse.parsed.status \notin StatusLiteral
                THEN GenFailure("ValidationError")
                ELSE GenReturn(MergeOffer(update_request, parse.parsed))]

\* what a database method or an endpoint leaves behind: the table, the
\* statements run, and either a value or an error text
DbResult(tbl, statements, ok, value) ==
    [offers |-> tbl, statements |-> statements, ok |-> ok, value |-> value]

\* Database.save_offer, lines 134-182
save_offer(tbl, offer, user_id, fails) ==
    IF fails THEN DbResult(tbl, <<>>, FALSE, "Error saving offer")
    ELSE LET id == NewId(tbl) IN
         DbResult([tbl EXCEPT ![id] = RowOf(offer, user_id)], <<Insert>>, TRUE, id)

\* Database.get_offer_by_id, lines 184-205
get_offer_by_id(tbl, id, fails) ==
    IF fails THEN DbResult(tbl, <<>>, FALSE, "Error fetching offer")
    ELSE DbResult(tbl, <<Select>>, TRUE, tbl[id])

\* Database.delete_offer, lines 306-327: the value is cursor.rowcount > 0
db_delete_offer(tbl, id, fails) ==
    IF fails THEN DbResult(tbl, <<>>, FALSE, "Error deleting offer")
    ELSE DbResult([tbl EXCEPT ![id] = NoOffer], <<Delete>>, TRUE, tbl[id] # NoOffer)

\* Database.update_offer, lines 329-387: the value is cursor.rowcount > 0
db_update_offer(tbl, id, offer, user_id, fails) ==
    IF fails THEN DbResult(tbl, <<>>, FALSE, "Error updating offer")
    ELSE IF tbl[id] = NoOffer THEN DbResult(tbl, <<Update>>, TRUE, FALSE)
    ELSE DbResult([tbl EXCEPT ![id] = RowOf(offer, user_id)], <<Update>>, TRUE, TRUE)

\* Database.toggle_order_status, lines 435-478
toggle_order_status(tbl, id, status, fails) ==
    IF fails THEN DbResult(tbl, <<>>, FALSE, "Error updating offer status")
    ELSE IF status \notin valid_statuses
    THEN DbResult(tbl, <<>>, FALSE, "Error updating offer status: Invalid status")
    ELSE IF tbl[id] = NoOffer
    THEN DbResult(tbl, <<Select>>, FALSE, "Error updating offer status: offer not found")
    ELSE DbResult([tbl EXCEPT ![id].status = status], <<Select, Update>>, TRUE,
                  [offer_id |-> id, status |-> status])

\* variant: a toggle that sets the flag
toggle_materials_ordered_set(tbl, id, fails) ==
    IF fails
    THEN DbResult(tbl, <<>>, FALSE, "Error toggling materials_ordered status")
    ELSE IF tbl[id] = NoOffer
    THEN DbResult(tbl, <<Select>>, FALSE,
                  "Error toggling materials_ordered status: offer not found")
    ELSE DbResult([tbl EXCEPT ![id].materials_ordered = TRUE], <<Select, Update>>, TRUE,
                  [offer_id |-> id, materials_ordered |-> TRUE])

\* Database.toggle_materials_ordered, lines 480-522
toggle_materials_ordered(tbl, id, fails) ==
    IF fails
    THEN DbResult(tbl, <<>>, FALSE, "Error toggling materials_ordered status")
    ELSE IF tbl[id] = NoOffer
    THEN DbResult(tbl, <<Select>>, FALSE,
                  "Error toggling materials_ordered status: offer not found")
    ELSE LET new_status == ~tbl[id].materials_ordered IN
         DbResult([tbl EXCEPT ![id].materials_ordered = new_status], <<Select, Update>>,
                  TRUE, [offer_id |-> id, materials_ordered |-> new_status])

\* `"not found" in str(e).lower()`
NotFoundText(e) ==
    e \in {"Error updating offer status: offer not found",
           "Error toggling materials_ordered status: offer not found"}

\* what an endpoint answers: the table it leaves, the HTTP status, the body,
\* the statements it ran, the model calls made for it and what the
\* generator handed back (NoResult when it was not invoked)
Reply(tbl, code, body, statements, sent, generated) ==
    [offers |-> tbl, code |-> code, body |-> body, statements |-> statements,
     sent |-> sent, generated |-> generated]
OK == 200
UnprocessableEntity == 422
NotFound == 404
ServerError == 500
BadRequest == 400

\* variant: a draft row is written before the generator is asked, and
\* filled in afterwards
main_generate_offer_draft_first(tbl, request, generated, fault) ==
    LET draft == MergeOffer(request, GenContent("Pending", Price(0, 0, 0),
                                                request.project_start, FALSE))
        d == save_offer(tbl, draft, request.user_id, fault = "first")
    IN  IF ~d.ok THEN Reply(tbl, ServerError, d.value, d.statements, <<>>, generated)
        ELSE IF generated.type = "error"
        THEN Reply(d.offers, ServerError, generated.cause, d.statements, <<>>, generated)
        ELSE Reply([d.offers EXCEPT ![d.value] = RowOf(generated.offer, request.user_id)],
                   OK, [id |-> d.value, offer |-> generated.offer],
                   d.statements \o <<Update>>, <<>>, generated)

\* main.py lines 63-91, given what generator.generate_offer hands back
main_generate_offer(tbl, request, generated, fault) ==
    IF generated.type = "error"
    THEN Reply(tbl, ServerError, generated.cause, <<>>, <<>>, generated)
    ELSE LET r == save_offer(tbl, generated.offer, request.user_id, fault = "first") IN
         IF ~r.ok
         THEN Reply(tbl, ServerError, r.value, r.statements, <<>>, generated)
         ELSE Reply(r.offers, OK, [id |-> r.value, offer |-> generated.offer],
                    r.statements, <<>>, generated)

\* the offers a caller submits to /offers/save, and the ids: an id of the
\* table, or a placeholder such as "null"
SavedOffer(status) ==
    [customer_name |-> "Cy", phone_number |-> "333", address |-> "C Ln",
     task_description |-> "td", bill_of_materials |-> "bom", time |-> "2w",
     resource |-> "w2", status |-> status, price |-> Price(2, 1, 3),
     project_start |-> "2025-03-01", materials_ordered |-> FALSE]
PlaceholderId == 0

\* main.py lines 93-135
main_save_offer(tbl, offer_id, user_id, offer, fault) ==
    IF offer.status \notin StatusLiteral
    THEN Reply(tbl, UnprocessableEntity, "status", <<>>, <<>>, NoResult)
    ELSE IF offer_id = PlaceholderId
    THEN Reply(tbl, BadRequest, "Invalid or missing offer_id", <<>>, <<>>, NoResult)
    ELSE LET g == get_offer_by_id(tbl, offer_id, fault = "first") IN
         IF ~g.ok THEN Reply(tbl, ServerError, g.value, g.statements, <<>>, NoResult)
         ELSE IF g.value # NoOffer
         THEN LET u == db_update_offer(tbl, offer_id, offer, user_id, fault = "second") IN
              IF ~u.ok
              THEN Reply(tbl, ServerError, u.value, g.statements \o u.statements, <<>>, NoResult)
              ELSE IF ~u.value
              THEN Reply(u.offers, ServerError, "Failed to update offer in database",
                         g.statements \o u.statements, <<>>, NoResult)
              ELSE Reply(u.offers, OK, [id |-> offer_id, offer |-> offer],
                         g.statements \o u.statements, <<>>, NoResult)
         ELSE LET v == save_offer(tbl, offer, user_id, fault = "second") IN
              IF ~v.ok
              THEN Reply(tbl, ServerError, v.value, g.statements \o v.statements, <<>>, NoResult)
              ELSE Reply(v.offers, OK, [id |-> offer_id, offer |-> offer],
                         g.statements \o v.statements, <<>>, NoResult)

\* main.py lines 175-184: the 404 raised inside the try block is caught by
\* `except Exception` and answered as a 500
main_delete_offer(tbl, offer_id, fault) ==
    LET r == db_delete_offer(tbl, offer_id, fault = "first") IN
    IF ~r.ok THEN Reply(tbl, ServerError, r.value, r.statements, <<>>, NoResult)
    ELSE IF ~r.value
    THEN Reply(r.offers, ServerError, "404: offer not found", r.statements, <<>>, NoResult)
    ELSE Reply(r.offers, OK, "offer deleted successfully", r.statements, <<>>, NoResult)

\* variant: the model is asked before the offer is looked up
main_update_offer_model_first(tbl, offer_id, user_message, parse, fault) ==
    LET g == get_offer_by_id(tbl, offer_id, fault = "first")
        asked == update_offer(user_message, FinalofferOfRow(RowOf(SavedOffer("Pending"), "")),
                              parse)
    IN  IF ~g.ok THEN Reply(tbl, ServerError, g.value, g.statements, asked.sent, asked.result)
        ELSE IF g.value = NoOffer
        THEN Reply(tbl, NotFound, "offer not found", g.statements, asked.sent, asked.result)
        ELSE LET user_id == g.value.user_id
                 upd == update_offer(user_message, FinalofferOfRow(g.value), parse)
             IN  IF upd.result.type = "error"
                 THEN Reply(tbl, ServerError, upd.result.cause, g.statements, upd.sent,
                            upd.result)
                 ELSE LET u == db_update_offer(tbl, offer_id, upd.result.offer, user_id,
                                               fault = "second")
                      IN  IF ~u.ok
                          THEN Reply(tbl, ServerError, u.value, g.statements \o u.statements,
                                     upd.sent, upd.result)
                          ELSE Reply(u.offers, OK,
                                     [id |-> offer_id, offer |-> upd.result.offer],
                                     g.statements \o u.statements, upd.sent, upd.result)

\* main.py lines 231-278
main_update_offer(tbl, offer_id, user_message, parse, fault) ==
    LET g == get_offer_by_id(tbl, offer_id, fault = "first") IN
    IF ~g.ok THEN Reply(tbl, ServerError, g.value, g.statements, <<>>, NoResult)
    ELSE IF g.value = NoOffer
    THEN Reply(tbl, NotFound, "offer not found", g.statements, <<>>, NoResult)
    ELSE LET user_id == g.value.user_id
             upd == update_offer(user_message, FinalofferOfRow(g.value), parse)
         IN  IF upd.result.type = "error"
             THEN Reply(tbl, ServerError, upd.result.cause, g.statements, upd.sent,
                        upd.result)
             ELSE LET u == db_update_offer(tbl, offer_id, upd.result.offer, user_id,
                                           fault = "second")
                  IN  IF ~u.ok
                      THEN Reply(tbl, ServerError, u.value, g.statements \o u.statements,
                                 upd.sent, upd.result)
                      ELSE IF ~u.value
                      THEN Reply(u.offers, ServerError, "Failed to update offer in database",
                                 g.statements \o u.statements, upd.sent, upd.result)
                      ELSE Reply(u.offers, OK,
                                 [id |-> offer_id, offer |-> upd.result.offer],
                                 g.statements \o u.statements, upd.sent, upd.result)

\* variant: the request is not validated before the handler runs
main_toggle_offer_status_unvalidated(tbl, offer_id, status, fault) ==
    LET r == toggle_order_status(tbl, offer_id, status, fault = "first") IN
    IF r.ok THEN Reply(r.offers, OK, r.value, r.statements, <<>>, NoResult)
    ELSE IF NotFoundText(r.value)
    THEN Reply(tbl, NotFound, "offer not found", r.statements, <<>>, NoResult)
    ELSE Reply(tbl, ServerError, r.value, r.statements, <<>>, NoResult)

\* main.py lines 280-293, behind the validation of the UpdateStatus body
main_toggle_offer_status(tbl, offer_id, status, fault) ==
    IF status \notin StatusLiteral
    THEN Reply(tbl, UnprocessableEntity, "status", <<>>, <<>>, NoResult)
    ELSE LET r == toggle_order_status(tbl, offer_id, status, fault = "first") IN
         IF r.ok THEN Reply(r.offers, OK, r.value, r.statements, <<>>, NoResult)
         ELSE IF NotFoundText(r.value)
         THEN Reply(tbl, NotFound, "offer not found", r.statements, <<>>, NoResult)
         ELSE Reply(tbl, ServerError, r.value, r.statements, <<>>, NoResult)

\* main.py lines 295-308
main_toggle_materials_ordered(tbl, offer_id, fault) ==
    LET r == toggle_materials_ordered(tbl, offer_id, fault = "first") IN
    IF r.ok THEN Reply(r.offers, OK, r.value, r.statements, <<>>, NoResult)
    ELSE IF NotFoundText(r.value)
    THEN Reply(tbl, NotFound, "offer not found", r.statements, <<>>, NoResult)
    ELSE Reply(tbl, ServerError, r.value, r.statements, <<>>, NoResult)

\* the endpoint call of a step: which endpoint, on which id, with which
\* input, and the reply
Called(endpoint, id, input, reply) ==
    [endpoint |-> endpoint, id |-> id, input |-> input, code |-> reply.code,
     body |-> reply.body, statements |-> reply.statements, sent |-> reply.sent,
     generated |-> reply.generated]
NoApi == [endpoint |-> "none", id |-> 0, input |-> "", code |-> 0, body |-> "",
          statements |-> <<>>, sent |-> <<>>, generated |-> NoResult]

\* the clients whose materials-ordered requests are followed statement by
\* statement
Clients == {"c1", "c2"}
NoPair == [id |-> 0, row |-> NoOffer]

ApiIdle ==
    /\ offers = [i \in OfferIds |-> NoOffer]
    /\ served = NoApi
    /\ hpc = [c \in Clients |-> "idle"]
    /\ hread = [c \in Clients |-> FALSE]
    /\ hpair = NoPair

ChatIdle ==
    /\ store = [s \in SessionIds |-> NoObj]
    /\ heap = [o \in Objs |-> NoSession]
    /\ pc = [t \in Turns |-> "idle"]
    /\ req = [t \in Turns |-> NoRequest]
    /\ sess = [t \in Turns |-> NoObj]
    /\ resp = [t \in Turns |-> NoResponse]
    /\ follow = [t \in Turns |-> ""]
    /\ idx = [t \in Turns |-> 0]
    /\ ncalls = [t \in Turns |-> 0]
    /\ lastCall = NoCall
    /\ out = NoOutcome
    /\ nreq = 0
    /\ pre = [t \in Turns |-> NoPre]

Init == ChatIdle /\ GenIdle /\ ApiIdle /\ op = "chat"

\* the turn ends: return value or wrapped exception (lines 473-474); its
\* locals go out of scope
Finish(t, r, st, h) ==
    /\ out' = Outcome(req[t], r)
    /\ pc' = [pc EXCEPT ![t] = "idle"]
    /\ sess' = [sess EXCEPT ![t] = NoObj]
    /\ resp' = [resp EXCEPT ![t] = NoResponse]
    /\ follow' = [follow EXCEPT ![t] = ""]
    /\ idx' = [idx EXCEPT ![t] = 0]
    /\ req' = [req EXCEPT ![t] = NoRequest]
    /\ ncalls' = [ncalls EXCEPT ![t] = 0]
    /\ pre' = [pre EXCEPT ![t] = NoPre]
    /\ store' = st
    /\ heap' = Collect(h, st, [sess EXCEPT ![t] = NoObj])
    /\ searches' = 0 /\ lookup' = NoLookup
    /\ UNCHANGED <<nreq, op, gvars, avars>>

\* the turn goes on: nothing is handed to the caller
ContinueWith(lk) ==
    /\ out' = NoOutcome
    /\ searches' = InventorySearches(lk.db)
    /\ lookup' = lk
    /\ UNCHANGED <<nreq, op, gvars, avars>>
Continue ==
    out' = NoOutcome /\ searches' = 0 /\ lookup' = NoLookup /\ UNCHANGED <<nreq, op, gvars, avars>>

\* variant: messages.insert(0, m)
AppendFirst(h, o, m) == [h EXCEPT ![o].messages = <<m>> \o @]

\* messages.append(m) on the list of session object o
AppendTo(h, o, m) == [h EXCEPT ![o].messages = Append(@, m)]

\* the turn ends with the wrapped exception
Fail(t, cause) == Finish(t, Failure(cause), AfterFailure(store, req[t].session_id), heap)

\* lines 367-370: invocation, `session_id not in self._chat_sessions`, and
\* the refusal of a new session without customer info.  Workers are
\* interchangeable: the lowest idle one takes the request.
Check(t) ==
    /\ pc[t] = "idle"
    /\ \A u \in Turns : u < t => pc[u] # "idle"
    /\ nreq < MaxRequests
    /\ nreq' = nreq + 1
    /\ lastCall' = NoCall
    /\ \E r \in Requests :
        /\ r.n = nreq + 1
        /\ nreq = 0 => r.session_id = FirstSession
        /\ LET sid == r.session_id
               ci == r.customer_info
           IN
            IF ~SessionMissing(store, sid)
            THEN /\ pc' = [pc EXCEPT ![t] = "load"]
                 /\ req' = [req EXCEPT ![t] = r]
                 /\ pre' = [pre EXCEPT ![t] =
                              [present |-> TRUE, messages |-> heap[store[sid]].messages,
                               after_offer |-> FALSE]]
                 /\ out' = NoOutcome
            ELSE IF Falsy(ci)
            THEN /\ out' = Outcome(r, Failure(SessionNotFound))
                 /\ UNCHANGED <<pc, req, pre>>
            ELSE /\ pc' = [pc EXCEPT ![t] = "create"]
                 /\ req' = [req EXCEPT ![t] = r]
                 /\ pre' = [pre EXCEPT ![t] =
                              [NoPre EXCEPT !.after_offer =
                                  /\ out.result.type = "offer"
                                  /\ out.req.session_id = sid]]
                 /\ out' = NoOutcome
    /\ searches' = 0 /\ lookup' = NoLookup
    /\ UNCHANGED <<store, heap, sess, resp, follow, idx, ncalls, op, gvars, avars>>

\* lines 372-376: self._chat_sessions[session_id] = {...}
Create(t) ==
    /\ pc[t] = "create"
    /\ LET o == req[t].n
           st == [store EXCEPT ![req[t].session_id] = o]
       IN /\ store' = st
          /\ heap' = Collect([heap EXCEPT ![o] =
                                NewSession(req[t].customer_info, req[t].project_start)],
                             st, sess)
    /\ pc' = [pc EXCEPT ![t] = "load"]
    /\ lastCall' = NoCall
    /\ Continue
    /\ UNCHANGED <<req, sess, resp, follow, idx, ncalls, pre>>

\* variant: a turn that brings a profile refreshes what the session holds
LoadRefreshing(t) ==
    /\ pc[t] = "load"
    /\ lastCall' = NoCall
    /\ IF SessionMissing(store, req[t].session_id)
       THEN Fail(t, "KeyError")
       ELSE /\ sess' = [sess EXCEPT ![t] = store[req[t].session_id]]
            /\ heap' = IF Falsy(req[t].customer_info) THEN heap
                       ELSE [heap EXCEPT
                                ![store[req[t].session_id]].customer_info =
                                    req[t].customer_info,
                                ![store[req[t].session_id]].project_start =
                                    req[t].project_start]
            /\ pc' = [pc EXCEPT ![t] = "append"]
            /\ Continue
            /\ UNCHANGED <<store, req, resp, follow, idx, ncalls, pre>>

\* lines 378-381: session = self._chat_sessions[session_id]
Load(t) ==
    /\ pc[t] = "load"
    /\ lastCall' = NoCall
    /\ IF SessionMissing(store, req[t].session_id)
       THEN Fail(t, "KeyError")
       ELSE /\ sess' = [sess EXCEPT ![t] = store[req[t].session_id]]
            /\ pc' = [pc EXCEPT ![t] = "append"]
            /\ Continue
            /\ UNCHANGED <<store, heap, req, resp, follow, idx, ncalls, pre>>

\* line 383: messages.append({"role": "user", "content": message})
AppendUser(t) ==
    /\ pc[t] = "append"
    /\ heap' = AppendTo(heap, sess[t], UserMsg(req[t].message))
    /\ pc' = [pc EXCEPT ![t] = "decide"]
    /\ lastCall' = NoCall
    /\ Continue
    /\ UNCHANGED <<store, req, sess, resp, follow, idx, ncalls, pre>>

\* lines 386-393: the decision call, over the session's messages as they
\* are, with chat_tools
Decide(t) ==
    /\ pc[t] = "decide"
    /\ lastCall' = ModelCall(req[t].n, heap[sess[t]].messages, TRUE)
    /\ \E r \in Responses :
        IF r.kind = "raise"
        THEN Fail(t, r.error)
        ELSE /\ resp' = [resp EXCEPT ![t] = r]
             /\ ncalls' = [ncalls EXCEPT ![t] = @ + 1]
             /\ pc' = [pc EXCEPT ![t] = IF r.tool_calls # <<>> THEN "tools" ELSE "plain"]
             /\ Continue
             /\ UNCHANGED <<store, heap, req, sess, follow, idx, pre>>

\* lines 463-471: no tool calls
PlainReply(t) ==
    /\ pc[t] = "plain"
    /\ lastCall' = NoCall
    /\ Finish(t, MessageResult(resp[t].content), store,
              AppendTo(heap, sess[t], AssistantMsg(resp[t].content)))

\* lines 396-397: messages.append(response_message)
ToolsBegin(t) ==
    /\ pc[t] = "tools"
    /\ heap' = AppendTo(heap, sess[t], ToolCallMsg(resp[t].tool_calls))
    /\ idx' = [idx EXCEPT ![t] = 1]
    /\ pc' = [pc EXCEPT ![t] = "loop"]
    /\ lastCall' = NoCall
    /\ Continue
    /\ UNCHANGED <<store, req, sess, resp, follow, ncalls, pre>>

\* lines 400-407: a get_inventory_data call.  The tool message carries the
\* JSON text of the returned dict; the text is named here by the dict it
\* encodes, with the item list reduced to its length.
InventoryCall(t) ==
    /\ pc[t] = "loop"
    /\ idx[t] <= Len(resp[t].tool_calls)
    /\ lastCall' = NoCall
    /\ LET tc == resp[t].tool_calls[idx[t]] IN
        /\ tc.name = "get_inventory_data"
        /\ IF ~tc.arguments.json
           THEN Fail(t, "JSONDecodeError")
           ELSE \E db \in ChatDbOutcomes :
                LET lk == Lookup(ArgGet(tc.arguments, "query", ""), db) IN
                /\ heap' = AppendTo(heap, sess[t], ToolMsg(tc.id, lk.result))
                /\ idx' = [idx EXCEPT ![t] = @ + 1]
                /\ ContinueWith(lk)
                /\ UNCHANGED <<store, pc, req, sess, resp, follow, ncalls, pre>>

\* variant: the session is dropped with pop(session_id, None), which does
\* not raise when another turn has removed it already
FinalOfferCallTolerant(t) ==
    /\ pc[t] = "loop"
    /\ idx[t] <= Len(resp[t].tool_calls)
    /\ lastCall' = NoCall
    /\ LET tc == resp[t].tool_calls[idx[t]]
           sid == req[t].session_id
           ci == heap[sess[t]].customer_info
           ps == heap[sess[t]].project_start
       IN
        /\ tc.name = "generate_final_offer"
        /\ IF ~tc.arguments.json
           THEN Fail(t, "JSONDecodeError")
           ELSE IF ~OfferValidates(ps, tc.arguments)
           THEN Fail(t, "ValidationError")
           ELSE Finish(t, OfferResult(BuildOffer(ci, ps, tc.arguments)),
                       DeleteSession(store, sid), heap)

\* lines 409-447: a generate_final_offer call
FinalOfferCall(t) ==
    /\ pc[t] = "loop"
    /\ idx[t] <= Len(resp[t].tool_calls)
    /\ lastCall' = NoCall
    /\ LET tc == resp[t].tool_calls[idx[t]]
           sid == req[t].session_id
           ci == heap[sess[t]].customer_info
           ps == heap[sess[t]].project_start
       IN
        /\ tc.name = "generate_final_offer"
        /\ IF ~tc.arguments.json
           THEN Fail(t, "JSONDecodeError")
           ELSE IF ~OfferValidates(ps, tc.arguments)
           THEN Fail(t, "ValidationError")
           ELSE IF SessionMissing(store, sid)
           THEN Fail(t, "KeyError")
           ELSE Finish(t, OfferResult(BuildOffer(ci, ps, tc.arguments)),
                       DeleteSession(store, sid), heap)

\* a call naming any other tool falls through both branches of the loop body
OtherCall(t) ==
    /\ pc[t] = "loop"
    /\ idx[t] <= Len(resp[t].tool_calls)
    /\ resp[t].tool_calls[idx[t]].name \notin {"get_inventory_data", "generate_final_offer"}
    /\ idx' = [idx EXCEPT ![t] = @ + 1]
    /\ lastCall' = NoCall
    /\ Continue
    /\ UNCHANGED <<store, heap, pc, req, sess, resp, follow, ncalls, pre>>

\* lines 449-453: the follow-up call after the loop, without tools
FollowUp(t) ==
    /\ pc[t] = "loop"
    /\ idx[t] > Len(resp[t].tool_calls)
    /\ lastCall' = ModelCall(req[t].n, heap[sess[t]].messages, FALSE)
    /\ \E r \in Responses :
        /\ r.tool_calls = <<>>
        /\ IF r.kind = "raise"
           THEN Fail(t, r.error)
           ELSE /\ follow' = [follow EXCEPT ![t] = r.content]
                /\ ncalls' = [ncalls EXCEPT ![t] = @ + 1]
                /\ pc' = [pc EXCEPT ![t] = "followup"]
                /\ Continue
                /\ UNCHANGED <<store, heap, req, sess, resp, idx, pre>>

\* lines 455-461
FollowUpReply(t) ==
    /\ pc[t] = "followup"
    /\ lastCall' = NoCall
    /\ Finish(t, MessageResult(follow[t]), store,
              AppendTo(heap, sess[t], AssistantMsg(follow[t])))

Step(t) ==
    \/ Create(t)
    \/ Load(t)
    \/ AppendUser(t)
    \/ Decide(t)
    \/ PlainReply(t)
    \/ ToolsBegin(t)
    \/ InventoryCall(t)
    \/ FinalOfferCall(t)
    \/ OtherCall(t)
    \/ FollowUp(t)
    \/ FollowUpReply(t)

Next == \E t \in Turns : Check(t) \/ Step(t)

Spec == Init /\ [][Next]_vars

\* One request at a time: a request is taken only when no turn is running,
\* as under the endpoints of app/main.py, which call the generator
\* synchronously from the event loop.
SerialCheck(t) == Check(t) /\ op = "chat" /\ \A u \in Turns : pc[u] = "idle"

SerialNext == \E t \in Turns : SerialCheck(t) \/ Step(t)

SerialSpec == Init /\ [][SerialNext]_vars

\* Liveness: a turn that was taken up runs on to its return or its raise
\* (chat_for_offer is a synchronous call); nothing obliges a caller to send
\* another request.
RunningTurn == \E t \in Turns : Step(t)

FairSerialSpec == Init /\ [][SerialNext]_vars /\ WF_vars(RunningTurn)

\* ---------------------------------------------- generate_offer: actions
\* nothing of a chat turn moves while generate_offer runs
GenFrame == UNCHANGED <<store, heap, pc, req, sess, resp, follow, idx, ncalls,
                        lastCall, out, nreq, pre, op, avars>>

\* the invocation ends: both lanes hand back their result
GenEnd(results) ==
    /\ gout' = results
    /\ gpc' = "idle"
    /\ gresp' = NoResponse
    /\ gidx' = 0
    /\ gparsed' = NoContent
    /\ UNCHANGED <<greq, gmsgs>>

\* lines 198-199
GenFail(cause) == GenEnd([l \in Lanes |-> GenFailure(cause)])

\* lines 103-129: invocation; the prompt and the messages list are built
GenStart ==
    /\ op = "generate"
    /\ gpc = "idle"
    /\ \E p \in GenRequestPairs :
        /\ greq' = [l \in Lanes |-> p[l]]
        /\ gmsgs' = [l \in Lanes |-> GenMessages(p[l])]
    /\ gsent' = [l \in Lanes |-> <<>>]
    /\ gout' = [l \in Lanes |-> NoResult]
    /\ gpc' = "call1"
    /\ searches' = 0 /\ lookup' = NoLookup
    /\ UNCHANGED <<gresp, gidx, gparsed>>
    /\ GenFrame

\* lines 132-139: the first model call, with self.tools
GenFirstCall ==
    /\ gpc = "call1"
    /\ gsent' = [l \in Lanes |-> Append(gsent[l], GenCall("create", gmsgs[l]))]
    /\ searches' = 0 /\ lookup' = NoLookup
    /\ \E r \in Responses :
        IF r.kind = "raise"
        THEN GenFail(r.error)
        ELSE /\ gresp' = r
             /\ gpc' = IF r.tool_calls # <<>> THEN "tools" ELSE "call2"
             /\ UNCHANGED <<greq, gmsgs, gidx, gparsed, gout>>
    /\ GenFrame

\* lines 142-144: messages.append(response_message)
GenToolsBegin ==
    /\ gpc = "tools"
    /\ gmsgs' = [l \in Lanes |-> Append(gmsgs[l], ToolCallMsg(gresp.tool_calls))]
    /\ gidx' = 1
    /\ gpc' = "loop"
    /\ searches' = 0 /\ lookup' = NoLookup
    /\ UNCHANGED <<greq, gsent, gresp, gparsed, gout>>
    /\ GenFrame

\* lines 147-158: a get_inventory_data call
GenInventoryCall ==
    /\ gpc = "loop"
    /\ gidx <= Len(gresp.tool_calls)
    /\ LET tc == gresp.tool_calls[gidx] IN
        /\ tc.name = "get_inventory_data"
        /\ IF ~tc.arguments.json
           THEN GenFail("JSONDecodeError") /\ searches' = 0 /\ lookup' = NoLookup /\ UNCHANGED gsent
           ELSE \E db \in DbOutcomes :
                LET lk == Lookup(ArgGet(tc.arguments, "query", ""), db) IN
                /\ gmsgs' = [l \in Lanes |-> Append(gmsgs[l], ToolMsg(tc.id, lk.result))]
                /\ gidx' = gidx + 1
                /\ searches' = InventorySearches(db)
                /\ lookup' = lk
                /\ UNCHANGED <<gpc, greq, gsent, gresp, gparsed, gout>>
    /\ GenFrame

\* lines 147-148: a call naming any other tool is passed over
GenOtherCall ==
    /\ gpc = "loop"
    /\ gidx <= Len(gresp.tool_calls)
    /\ gresp.tool_calls[gidx].name # "get_inventory_data"
    /\ gidx' = gidx + 1
    /\ searches' = 0 /\ lookup' = NoLookup
    /\ UNCHANGED <<gpc, greq, gmsgs, gsent, gresp, gparsed, gout>>
    /\ GenFrame

\* lines 163-178: the schema-constrained call, after the loop or right after
\* a first response without tool calls
GenSecondCall ==
    /\ \/ gpc = "call2"
       \/ gpc = "loop" /\ gidx > Len(gresp.tool_calls)
    /\ gsent' = [l \in Lanes |-> Append(gsent[l], GenCall("parse", gmsgs[l]))]
    /\ searches' = 0 /\ lookup' = NoLookup
    /\ \E r \in ParseOutcomes :
        IF r.kind = "raise"
        THEN GenFail(r.error)
        ELSE /\ gparsed' = r.parsed
             /\ gpc' = "merge"
             /\ UNCHANGED <<greq, gmsgs, gresp, gidx, gout>>
    /\ GenFrame

\* lines 181-196: merge and return; attribute access on None raises
GenMerge ==
    /\ gpc = "merge"
    /\ searches' = 0 /\ lookup' = NoLookup
    /\ UNCHANGED gsent
    /\ IF gparsed = NoContent
       THEN GenFail("AttributeError")
       ELSE GenEnd([l \in Lanes |-> GenReturn(MergeOffer(greq[l], gparsed))])
    /\ GenFrame

GenNext ==
    \/ GenStart
    \/ GenFirstCall
    \/ GenToolsBegin
    \/ GenInventoryCall
    \/ GenOtherCall
    \/ GenSecondCall
    \/ GenMerge

GenInit == ChatIdle /\ GenIdle /\ ApiIdle /\ op = "generate"

GenSpec == GenInit /\ [][GenNext]_vars

\* Either operation from the start: a behaviour is one of chat turns taken
\* one at a time, or one of generate_offer invocations.
OpsInit == ChatIdle /\ GenIdle /\ ApiIdle /\ op \in {"chat", "generate"}

OpsNext == SerialNext \/ GenNext

OpsSpec == OpsInit /\ [][OpsNext]_vars

\* ------------------------------------------------- offers storage: actions
\* The handlers of main.py are coroutines without an await in their bodies:
\* each runs from its first line to its reply before another starts.
ApiFrame ==
    UNCHANGED <<store, heap, pc, req, sess, resp, follow, idx, ncalls, lastCall, out,
                nreq, pre, op, searches, lookup, gvars, hpc, hread, hpair>>

ApiStep(endpoint, id, input, reply) ==
    /\ op = "api"
    /\ offers' = reply.offers
    /\ served' = Called(endpoint, id, input, reply)
    /\ ApiFrame

\* POST /offers/generate
ApiGenerate ==
    /\ FreeIds(offers) # {}
    /\ \E request \in ApiRequests, fault \in {"none", "first"} :
        \E generated \in GenOutcomesOver(request, ApiContents) :
            ApiStep("generate", 0, request,
                    main_generate_offer(offers, request, generated, fault))

\* PUT /offers/save
ApiSave ==
    \E id \in OfferIds \cup {PlaceholderId}, status \in {"Done", "Cancelled"},
       fault \in DbFaults :
        ApiStep("save", id, SavedOffer(status),
                main_save_offer(offers, id, "u2", SavedOffer(status), fault))

\* PUT /offers/update
ApiUpdate ==
    \E id \in OfferIds, parse \in ApiParseOutcomes, fault \in DbFaults :
        ApiStep("update", id, parse, main_update_offer(offers, id, "longer", parse, fault))

\* PUT /offers/toggle-status
ApiToggleStatus ==
    \E id \in OfferIds, status \in SubmittedStatuses, fault \in {"none", "first"} :
        ApiStep("toggle-status", id, status,
                main_toggle_offer_status(offers, id, status, fault))

\* PUT /offers/materials-ordered
ApiToggleMaterials ==
    \E id \in OfferIds, fault \in {"none", "first"} :
        ApiStep("materials-ordered", id, "",
                main_toggle_materials_ordered(offers, id, fault))

\* DELETE /offers/{offer_id}
ApiDelete ==
    \E id \in OfferIds, fault \in {"none", "first"} :
        ApiStep("delete", id, "", main_delete_offer(offers, id, fault))

ApiNext ==
    \/ ApiGenerate
    \/ ApiDelete
    \/ ApiSave
    \/ ApiUpdate
    \/ ApiToggleStatus
    \/ ApiToggleMaterials

ApiInit == ChatIdle /\ GenIdle /\ ApiIdle /\ op = "api"

ApiSpec == ApiInit /\ [][ApiNext]_vars

\* Any entry point from the start: chat turns taken one at a time,
\* generate_offer invocations, or calls of the endpoints.
AllInit == ChatIdle /\ GenIdle /\ ApiIdle /\ op \in {"chat", "generate", "api"}

AllNext == OpsNext \/ ApiNext

AllSpec == AllInit /\ [][AllNext]_vars

\* ------------------------- materials-ordered requests, statement by statement
\* Two requests for one offer arrive together and wait for the event loop.
ToggleFrame ==
    UNCHANGED <<store, heap, pc, req, sess, resp, follow, idx, ncalls, lastCall, out,
                nreq, pre, op, searches, lookup, gvars>>

\* variant: the handler is a plain def, which the framework runs on its
\* thread pool beside the other handlers
LoopIdleThreaded == TRUE

\* main.py, lines 295-296: the handler is a coroutine and nothing in its body
\* awaits, so the event loop starts it only when no other handler is running
LoopIdle == \A c \in Clients : hpc[c] \in {"idle", "pending"}

TogglePair ==
    /\ op = "api"
    /\ \A c \in Clients : hpc[c] = "idle"
    /\ \E id \in OfferIds :
         /\ hpair' = [id |-> id, row |-> offers[id]]
         /\ hpc' = [c \in Clients |-> "pending"]
    /\ UNCHANGED <<offers, served, hread>>
    /\ ToggleFrame

\* main.py, line 295: the event loop enters the handler
ToggleStart(c) ==
    /\ hpc[c] = "pending"
    /\ LoopIdle
    /\ hpc' = [hpc EXCEPT ![c] = "select"]
    /\ UNCHANGED <<offers, served, hread, hpair>>
    /\ ToggleFrame

\* database.py, lines 487-503: the SELECT, and the negation of what it read
ToggleSelect(c) ==
    /\ hpc[c] = "select"
    /\ IF offers[hpair.id] = NoOffer
       THEN /\ served' = Called("materials-ordered", hpair.id, "",
                                Reply(offers, NotFound, "offer not found", <<Select>>,
                                      <<>>, NoResult))
            /\ hpc' = [hpc EXCEPT ![c] = "idle"]
            /\ UNCHANGED hread
       ELSE /\ hread' = [hread EXCEPT ![c] = offers[hpair.id].materials_ordered]
            /\ hpc' = [hpc EXCEPT ![c] = "update"]
            /\ UNCHANGED served
    /\ UNCHANGED <<offers, hpair>>
    /\ ToggleFrame

\* database.py, lines 505-517, and the reply of main.py, lines 298-301
ToggleUpdate(c) ==
    /\ hpc[c] = "update"
    /\ LET new_status == ~hread[c]
           tbl == [offers EXCEPT ![hpair.id].materials_ordered = new_status] IN
       /\ offers' = tbl
       /\ served' = Called("materials-ordered", hpair.id, "",
                           Reply(tbl, OK, [offer_id |-> hpair.id,
                                           materials_ordered |-> new_status],
                                 <<Select, Update>>, <<>>, NoResult))
    /\ hpc' = [hpc EXCEPT ![c] = "idle"]
    /\ UNCHANGED <<hread, hpair>>
    /\ ToggleFrame

ToggleNext ==
    \/ LoopIdle /\ ApiGenerate
    \/ TogglePair
    \/ \E c \in Clients : ToggleStart(c)
    \/ \E c \in Clients : ToggleSelect(c)
    \/ \E c \in Clients : ToggleUpdate(c)

ToggleSpec == ApiInit /\ [][ToggleNext]_vars

\* ------------------------------------------------------------- properties
\* Reading a step of a behaviour.
\* the step begins invocation r: r is taken up by a worker or refused at once
Begins(r) ==
    /\ nreq' = nreq + 1
    /\ r.n = nreq'
    /\ (out'.req = r \/ \E t \in Turns : req'[t] = r)
\* the step is the last one of turn t
Ends(t) == pc[t] # "idle" /\ pc'[t] = "idle"
\* the store holds session id sid
Known(st, sid) == st[sid] # NoObj
\* None or the empty dict
NoProfile(ci) == ci = NoneInfo \/ ci = EmptyInfo
\* the result is the wrapped failure of a model call
ModelFailed(res) == res.type = "error" /\ res.cause \in ModelErrors
\* the transcript the decision call of turn t is made over when no other
\* turn interferes: what was stored (or the fresh system prompt), then the
\* user message
Base(t) ==
    (IF pre[t].present THEN pre[t].messages ELSE <<SystemMsg>>)
        \o <<[role |-> "user", content |-> req[t].message]>>

\* C1: a turn for a session id the store does not hold that passes no
\* customer profile (None or an empty dict) fails with the session-not-found
\* error in the step that begins it: no model call is made, no session is
\* created, no turn is started and the store is left as it was.
C1_UnknownSessionWithoutProfile ==
    [][\A r \in Requests :
        (Begins(r) /\ ~Known(store, r.session_id) /\ NoProfile(r.customer_info)) =>
            /\ out' = Outcome(r, Failure(SessionNotFound))
            /\ lastCall' = NoCall
            /\ UNCHANGED <<store, heap, pc, req, sess, ncalls>>]_vars

\* the empty profile was refused for an id the store does not hold
C1_Refused ==
    /\ out.result = Failure(SessionNotFound)
    /\ out.req.customer_info = EmptyInfo
    /\ ~Known(store, out.req.session_id)

\* Reading a decision response.
HasFinalOffer(calls) == \E i \in 1..Len(calls) : calls[i].name = "generate_final_offer"
FirstFinalOffer(calls) ==
    CHOOSE i \in 1..Len(calls) :
        /\ calls[i].name = "generate_final_offer"
        /\ \A j \in 1..(i - 1) : calls[j].name # "generate_final_offer"
InventoryOnly(calls) ==
    calls # <<>> /\ \A i \in 1..Len(calls) : calls[i].name = "get_inventory_data"
\* every get_inventory_data call among the first k decodes as JSON
InventoryDecodes(calls, k) ==
    \A j \in 1..k : calls[j].name = "get_inventory_data" => calls[j].arguments.json
\* the response is as the tool schema declares it up to its first
\* generate_final_offer call: the calls before it decode, and its own
\* arguments decode and hold a list of well-formed materials
FinalOfferWellFormed(calls) ==
    LET i == FirstFinalOffer(calls) IN
        /\ InventoryDecodes(calls, i - 1)
        /\ calls[i].arguments.json
        /\ calls[i].arguments.bill_of_materials \in {"bom", ""}

\* C2: a turn whose decision response holds a generate_final_offer call (one
\* that is well formed) ends by returning {type: offer}, with the session id
\* gone from the store, and the next turn with that id and no customer
\* profile fails with the session-not-found error.
C2_FinalOfferReturned ==
    [][/\ \A t \in Turns :
            (/\ Ends(t)
             /\ HasFinalOffer(resp[t].tool_calls)
             /\ FinalOfferWellFormed(resp[t].tool_calls)) =>
                /\ out'.result.type = "offer"
                /\ ~Known(store', req[t].session_id)
       /\ \A r \in Requests :
            (/\ out.result.type = "offer"
             /\ Begins(r)
             /\ r.session_id = out.req.session_id
             /\ NoProfile(r.customer_info)) =>
                out' = Outcome(r, Failure(SessionNotFound))]_vars

\* a well-formed generate_final_offer call has failed on a session that was
\* created without a project start, and the session is still in the store
C2_OfferRefusedForMissingStart ==
    /\ out.result = Failure("ValidationError")
    /\ Known(store, out.req.session_id)
    /\ heap[store[out.req.session_id]].project_start = NoDate
    /\ LET m == heap[store[out.req.session_id]].messages IN
        /\ "tool_calls" \in DOMAIN m[Len(m)]
        /\ HasFinalOffer(m[Len(m)].tool_calls)
        /\ FinalOfferWellFormed(m[Len(m)].tool_calls)

\* C3: a turn for a session id the store does not hold that passes a customer
\* profile is taken up and creates one session: when the turn reaches its
\* model call the store holds that id with the passed profile and project
\* start and the transcript <<system prompt, user message>>; on the way no
\* other id is added, removed or touched, and the turn does not fail.
C3_UnknownSessionWithProfile ==
    [][/\ \A r \in Requests :
            (Begins(r) /\ ~Known(store, r.session_id) /\ ~NoProfile(r.customer_info)) =>
                /\ \E t \in Turns : req'[t] = r /\ pc'[t] = "create"
                /\ out'.result.type = "none"
                /\ UNCHANGED <<store, heap>>
       /\ \A t \in Turns :
            (pc[t] \in {"create", "load", "append"} /\ ~pre[t].present) =>
                LET sid == req[t].session_id IN
                /\ pc'[t] # "idle"
                /\ \A s \in SessionIds \ {sid} :
                    /\ store'[s] = store[s]
                    /\ Known(store, s) => heap'[store[s]] = heap[store[s]]
                /\ pc'[t] = "decide" =>
                    /\ Known(store', sid)
                    /\ heap'[store'[sid]] =
                         [messages |-> <<[role |-> "system", content |-> "chat_system_prompt"],
                                         [role |-> "user", content |-> req[t].message]>>,
                          customer_info |-> req[t].customer_info,
                          project_start |-> req[t].project_start]]_vars

\* a second session has been created next to one that is still there
C3_SecondSessionCreated ==
    \E t \in Turns :
        /\ pc[t] = "decide"
        /\ ~pre[t].present
        /\ Known(store, req[t].session_id)
        /\ \E s \in SessionIds \ {req[t].session_id} : Known(store, s)

\* C4: the offer a turn returns has status "Pending", materials_ordered
\* false, and customer name, phone number, address, resource and project
\* start equal to the values the session holds, which never change while the
\* session object lives: neither the tool call's arguments nor the
\* customer_info and project_start passed to the returning turn enter it.
C4_OfferFromStoredValues ==
    [][/\ \A t \in Turns :
            (Ends(t) /\ out'.result.type = "offer") =>
                LET o == out'.result.offer
                    ci == heap[sess[t]].customer_info
                    stored(k) == IF ci[k] = Missing THEN "" ELSE ci[k]
                IN  /\ o.status = "Pending"
                    /\ o.materials_ordered = FALSE
                    /\ o.customer_name = stored("customer_name")
                    /\ o.phone_number = stored("phone_number")
                    /\ o.address = stored("address")
                    /\ o.resource = stored("resource")
                    /\ o.project_start = heap[sess[t]].project_start
                    /\ sess[t] = store[req[t].session_id]
       /\ \A o \in Objs :
            (heap[o] # NoSession /\ heap'[o] # NoSession) =>
                /\ heap'[o].customer_info = heap[o].customer_info
                /\ heap'[o].project_start = heap[o].project_start]_vars

\* an offer came back from a turn that passed another profile and another
\* project start than the session holds, on a tool call that names a
\* customer and a status of its own
C4_OfferDespiteOtherParameters ==
    /\ out.result.type = "offer"
    /\ out.req.customer_info = InfoB
    /\ out.req.project_start = "2025-04-01"
    /\ out.result.offer.customer_name = "Ann"
    /\ out.result.offer.project_start = "2025-03-01"

\* C5: a turn whose decision response is a plain message ends by appending
\* that message as an assistant message directly after the turn's user
\* message, leaves the store and every other session as they are, and
\* returns {type: message} with that text.
C5_PlainMessage ==
    [][\A t \in Turns :
        (Ends(t) /\ resp[t].kind = "ok" /\ resp[t].tool_calls = <<>>) =>
            LET sid == req[t].session_id
                o == store[sid]
            IN  /\ out'.result = [type |-> "message", message |-> resp[t].content]
                /\ store' = store
                /\ Known(store, sid)
                /\ heap[o].messages = Base(t)
                /\ heap'[o].messages =
                     Append(Base(t), [role |-> "assistant", content |-> resp[t].content])
                /\ \A q \in Objs \ {o} : heap'[q] = heap[q]]_vars

\* a plain reply was returned on a session that already held an exchange
C5_PlainReplyReturned ==
    /\ out.result.type = "message"
    /\ Known(store, out.req.session_id)
    /\ LET m == heap[store[out.req.session_id]].messages IN
        /\ Len(m) = 5
        /\ m[Len(m)].role = "assistant"
        /\ m[Len(m) - 1] = [role |-> "user", content |-> out.req.message]

\* the messages a turn has added after Base(t) when its k first inventory
\* calls are answered: the response message, then one tool message per call
\* in call order, each naming its call and carrying a result of
\* get_inventory_data for the call's query
AnsweredUpTo(msgs, t, k) ==
    LET calls == resp[t].tool_calls
        b == Len(Base(t))
    IN  /\ Len(msgs) = b + 1 + k
        /\ SubSeq(msgs, 1, b) = Base(t)
        /\ msgs[b + 1] = [role |-> "assistant", tool_calls |-> calls]
        /\ \A i \in 1..k :
            /\ msgs[b + 1 + i].role = "tool"
            /\ msgs[b + 1 + i].tool_call_id = calls[i].id
            /\ \E db \in DbOutcomes :
                msgs[b + 1 + i].content = get_inventory_data(calls[i].arguments.query, db)

\* C6 as the specification states it, granted that the follow-up call does
\* not fail: a turn whose decision response requests get_inventory_data only
\* ends by returning {type: message}.
C6_InventoryOnlyAlwaysAnswered ==
    [][\A t \in Turns :
        (Ends(t) /\ InventoryOnly(resp[t].tool_calls)) =>
            \/ out'.result.type = "message"
            \/ ModelFailed(out'.result)]_vars

\* C6, amended: when the decision response requests get_inventory_data only
\* and the arguments of every call decode as JSON, every call is executed
\* and its result appended as a tool message, then exactly one further model
\* call is made, without tools, over the transcript so extended; when that
\* call returns, its message is appended as an assistant message, the
\* session stays in the store and the turn returns {type: message} with that
\* text.  When the arguments of a call do not decode the turn fails before
\* any further model call, and the session stays in the store.
C6_InventoryOnlyAnswered ==
    [][\A t \in Turns :
        InventoryOnly(resp[t].tool_calls) =>
            LET calls == resp[t].tool_calls
                sid == req[t].session_id
                o == store[sid]
            IN
            \* a model call made while the response is handled is the follow-up
            /\ (pc[t] = "loop" /\ lastCall' # NoCall) =>
                /\ ncalls[t] = 1
                /\ AnsweredUpTo(heap[o].messages, t, Len(calls))
                /\ lastCall' = [n |-> req[t].n, messages |-> heap[o].messages, tools |-> FALSE]
            /\ Ends(t) =>
                /\ store' = store
                /\ Known(store, sid)
                /\ IF InventoryDecodes(calls, Len(calls))
                   THEN \/ /\ ModelFailed(out'.result)
                           /\ ncalls[t] = 1
                        \/ /\ out'.result = [type |-> "message", message |-> follow[t]]
                           /\ ncalls[t] = 2
                           /\ AnsweredUpTo(heap[o].messages, t, Len(calls))
                           /\ heap'[o].messages =
                                Append(heap[o].messages,
                                       [role |-> "assistant", content |-> follow[t]])
                   ELSE /\ out'.result.type = "error"
                        /\ ~ModelFailed(out'.result)
                        /\ ncalls[t] = 1]_vars

\* an inventory lookup was answered: the transcript ends with the response
\* message, the tool message that names its call, and the follow-up text
C6_LookupAnswered ==
    /\ out.result.type = "message"
    /\ Known(store, out.req.session_id)
    /\ LET m == heap[store[out.req.session_id]].messages IN
        /\ Len(m) = 5
        /\ m[3].role = "assistant" /\ "tool_calls" \in DOMAIN m[3]
        /\ m[4].role = "tool" /\ m[4].tool_call_id = "call_1"
        /\ m[5] = [role |-> "assistant", content |-> out.result.message]

\* C7: at no time are two turns for the same session id both between their
\* session check and their return.
C7_PerSessionMutualExclusion ==
    \A t, u \in Turns :
        (t # u /\ pc[t] # "idle" /\ pc[u] # "idle") =>
            req[t].session_id # req[u].session_id

\* two turns on one session id run at once, past the session check
C7_TwoTurnsOnOneSession ==
    /\ pc[1] = "decide" /\ pc[2] = "decide"
    /\ req[1].session_id = req[2].session_id
    /\ sess[1] = sess[2]

\* C8: a turn on an existing session that fails leaves the session's stored
\* transcript as it was before the turn.
C8_FailedTurnLeavesTranscript ==
    [][\A t \in Turns :
        (Ends(t) /\ out'.result.type = "error" /\ pre[t].present) =>
            /\ Known(store', req[t].session_id)
            /\ heap'[store'[req[t].session_id]].messages = pre[t].messages]_vars

\* a turn on an existing session failed in its model call, and its user
\* message is the last message of the stored transcript
C8_UserMessageLeftBehind ==
    /\ out.result.type = "error"
    /\ ModelFailed(out.result)
    /\ out.req.n > 1
    /\ Known(store, out.req.session_id)
    /\ LET m == heap[store[out.req.session_id]].messages IN
        /\ Len(m) > 3
        /\ m[Len(m)] = UserMsg(out.req.message)

\* C9: a turn whose model call fails or times out leaves the store as it
\* is, with the session in it, and the next turn with the same id is taken
\* up whatever it passes as profile: it does not fail with the
\* session-not-found error.
C9_ModelFailureKeepsSession ==
    [][/\ \A t \in Turns :
            (Ends(t) /\ ModelFailed(out'.result)) =>
                /\ store' = store
                /\ Known(store', req[t].session_id)
       /\ \A r \in Requests :
            (/\ out.result.type = "error"
             /\ ModelFailed(out.result)
             /\ Begins(r)
             /\ r.session_id = out.req.session_id) =>
                /\ out'.result.type = "none"
                /\ \E t \in Turns : req'[t] = r /\ pc'[t] = "load"]_vars

\* a turn without profile runs on a session whose first turn failed in its
\* model call: the transcript holds both user messages and no reply
C9_RetryAfterModelFailure ==
    \E t \in Turns :
        /\ pc[t] = "decide"
        /\ req[t].customer_info = NoneInfo
        /\ heap[sess[t]].messages =
             <<SystemMsg, UserMsg(MsgOf(1)), UserMsg(MsgOf(2))>>

\* C10: in every interleaving, a step changes the store entry or the session
\* object (transcript, profile, project start) of a session id only when it
\* is a step of a turn on that id, and the session object a turn works on is
\* never the one stored under another id; so a turn on A neither reads nor
\* changes B, and the deletion after A's offer leaves B in the store.
C10_SessionsIndependent ==
    [][\A b \in SessionIds :
        /\ (\/ store'[b] # store[b]
            \/ (Known(store, b) /\ heap'[store[b]] # heap[store[b]])) =>
                \E t \in Turns :
                    /\ req[t].session_id = b
                    /\ pc[t] # "idle"
                    /\ (pc'[t] # pc[t] \/ idx'[t] # idx[t])
        /\ \A t \in Turns :
            (req'[t].session_id # b /\ sess'[t] # NoObj) => store'[b] # sess'[t]
        /\ \A t \in Turns :
            (lastCall' # NoCall /\ lastCall'.n = req[t].n /\ req[t].session_id # b
             /\ Known(store, b)) =>
                lastCall'.messages # heap[store[b]].messages]_vars

\* the turn on one session returned its offer while a turn on the other
\* session is running, and the other session is in the store
C10_OfferBesideRunningTurn ==
    \E t \in Turns :
        /\ out.result.type = "offer"
        /\ pc[t] \notin {"idle", "create", "load"}
        /\ req[t].session_id # out.req.session_id
        /\ Known(store, req[t].session_id)
        /\ sess[t] = store[req[t].session_id]

\* ---------------------------------------------- properties: generate_offer
\* the step issues a model call of generate_offer
GenCalls == \E l \in Lanes : gsent'[l] # gsent[l] /\ gsent'[l] # <<>>
\* the step executes a tool for generate_offer: it appends a tool message
GenRunsTool == gpc = "loop" /\ gidx' = gidx + 1 /\ gmsgs' # gmsgs

\* C11: no operation issues more than two model calls or runs more than one
\* round of tools.  A chat turn issues its decision call first, with tools,
\* and at most one follow-up call, without tools, after which it only
\* returns; generate_offer issues one call with tools and then at most one
\* schema-constrained call, without tools, after which no tool runs; tools
\* run only between the first call and the second; and a step that runs a
\* tool makes at most one storage search.
C11_AtMostTwoModelCalls ==
    [][/\ searches' <= 1
       /\ \A t \in Turns :
            /\ ncalls'[t] <= 2
            /\ (pc[t] # "idle" /\ lastCall' # NoCall /\ lastCall'.n = req[t].n) =>
                /\ ncalls[t] <= 1
                /\ lastCall'.tools = (ncalls[t] = 0)
            /\ (searches' > 0 /\ pc[t] # "idle") => ncalls[t] = 1
            /\ ncalls[t] = 2 => (Ends(t) /\ lastCall' = NoCall /\ searches' = 0 /\ lookup' = NoLookup)
       /\ \A l \in Lanes :
            /\ Len(gsent'[l]) <= 2
            /\ GenCalls =>
                /\ gsent'[l][1] = [api |-> "create", messages |-> GenMessages(greq[l]),
                                   tools |-> TRUE, response_format |-> ""]
                /\ Len(gsent'[l]) = 2 =>
                    /\ gsent'[l][2].api = "parse"
                    /\ gsent'[l][2].tools = FALSE
            /\ GenRunsTool => Len(gsent[l]) = 1
            /\ (gpc # "idle" /\ Len(gsent[l]) = 2) =>
                (searches' = 0 /\ lookup' = NoLookup /\ gmsgs' = gmsgs /\ gsent' = gsent /\ gpc' = "idle")]_vars

\* generate_offer has issued its second call after a tool round with a
\* storage search
C11_TwoCallsAfterToolRound ==
    /\ gpc = "merge"
    /\ Len(gsent[1]) = 2
    /\ \E i \in 1..Len(gmsgs[1]) :
        /\ gmsgs[1][i].role = "tool"
        /\ "items_found" \in DOMAIN gmsgs[1][i].content

\* the step is the last one of the generate_offer invocation
GenEnds == gpc # "idle" /\ gpc' = "idle"
\* the fields Finaloffer requires
RequiredOfferFields ==
    {"customer_name", "phone_number", "address", "task_description",
     "bill_of_materials", "time", "resource", "price", "project_start"}
\* a complete offer: every required field is there and holds a value
CompleteOffer(o) ==
    /\ RequiredOfferFields \subseteq DOMAIN o
    /\ \A k \in RequiredOfferFields \ {"price"} : o[k] # Missing /\ o[k] # NoDate
    /\ DOMAIN o.price = {"Materials", "Labor", "Total"}
\* the step runs into tool arguments that do not decode, or into a merge
\* without parsed content
GenStepBreaks ==
    \/ gpc = "loop" /\ gidx <= Len(gresp.tool_calls)
         /\ gresp.tool_calls[gidx].name = "get_inventory_data"
         /\ ~gresp.tool_calls[gidx].arguments.json
    \/ gpc = "merge" /\ gparsed = NoContent
\* what went wrong in the step, if anything: the model call it issued did
\* not return, or the step breaks
GenStepFails == (GenCalls /\ gpc' = "idle") \/ GenStepBreaks

C12_OfferReturned ==
    /\ gpc = "idle"
    /\ gout[1].type = "offer"
    /\ CompleteOffer(gout[1].offer)

\* the price triple adds up
TotalIsSum(p) == p.Total = p.Materials + p.Labor
\* the offers the step hands back: by generate_offer, by a chat turn
OffersReturned ==
    { gout[l].offer : l \in {k \in Lanes : gout[k].type = "offer"} }
    \cup (IF out.result.type = "offer" THEN {out.result.offer} ELSE {})

\* C13: every offer handed back by generate_offer or by a terminating chat
\* turn has price.Total = price.Materials + price.Labor, whatever triple the
\* model supplied; an output whose triple does not add up is not returned.
C13_TotalIsSumOfParts == \A o \in OffersReturned : TotalIsSum(o.price)

\* a chat turn returned an offer whose total is not the sum of its parts
C13_WrongTotalReturned ==
    /\ out.result.type = "offer"
    /\ out.result.offer.price = Price(2, 1, 4)

RequiredArgs ==
    {"task_description", "bill_of_materials", "time",
     "materials_cost", "labor_cost", "total_cost"}
\* arguments that decode and leave out a required parameter
OmitsRequired(args) == args.json /\ ~(RequiredArgs \subseteq DOMAIN args)

\* C15: a turn whose generate_final_offer call leaves out a required
\* parameter (task_description, bill_of_materials, time, materials_cost,
\* labor_cost or total_cost) ends as a failure and returns no offer: no
\* default stands in for what is missing.
C15_OmittedFieldFails ==
    [][\A t \in Turns :
        (/\ Ends(t)
         /\ HasFinalOffer(resp[t].tool_calls)
         /\ OmitsRequired(resp[t].tool_calls[FirstFinalOffer(resp[t].tool_calls)].arguments)) =>
            out'.result.type = "error"]_vars

\* an offer came back with the defaults in place of the time and the total
\* the tool call left out
C15_DefaultsReturned ==
    /\ out.result.type = "offer"
    /\ out.result.offer.time = ""
    /\ out.result.offer.price = Price(2, 1, 0)

\* the fields of an offer that the model generates
GeneratedFields == {"task_description", "bill_of_materials", "time", "price"}

GenCallsAfterTools == GenCalls /\ gresp.tool_calls # <<>> /\ Len(gsent[1]) = 1
\* msgs answers the calls one for one: a tool message per call, in call
\* order, each naming its call
AnswersEach(msgs, calls) ==
    /\ Len(msgs) = Len(calls)
    /\ \A i \in 1..Len(calls) :
        /\ msgs[i].role = "tool"
        /\ msgs[i].tool_call_id = calls[i].id

\* C17: when the first response of generate_offer requests tool calls
\* c1..cn, the second model call is made over the original transcript,
\* then the assistant message with the calls, then one tool message per
\* call in the order c1..cn, each naming its call: no call is left
\* without a result.
C17_EveryCallAnswered ==
    [][\A l \in Lanes :
        GenCallsAfterTools =>
            LET sent == gsent'[l][2].messages
                calls == gresp.tool_calls
            IN  /\ Len(sent) = 3 + Len(calls)
                /\ SubSeq(sent, 1, 2) = gsent[l][1].messages
                /\ sent[3] = [role |-> "assistant", tool_calls |-> calls]
                /\ AnswersEach(SubSeq(sent, 4, Len(sent)), calls)]_vars

\* the second model call went out over a transcript in which a requested
\* call has no tool message
C17_CallLeftUnanswered ==
    /\ gpc = "merge"
    /\ Len(gsent[1]) = 2
    /\ gresp.tool_calls # <<>>
    /\ Len(gsent[1][2].messages) < 3 + Len(gresp.tool_calls)

\* the first response of the invocation is a plain message
GenDirectAnswer == gresp.kind = "ok" /\ gresp.tool_calls = <<>>

ChatLookupDue(t) ==
    /\ pc[t] = "loop" /\ idx[t] <= Len(resp[t].tool_calls)
    /\ resp[t].tool_calls[idx[t]].name = "get_inventory_data"
    /\ resp[t].tool_calls[idx[t]].arguments.json
GenLookupDue ==
    /\ gpc = "loop" /\ gidx <= Len(gresp.tool_calls)
    /\ gresp.tool_calls[gidx].name = "get_inventory_data"
    /\ gresp.tool_calls[gidx].arguments.json

\* C19: get_inventory_data never raises, whatever the query and whatever
\* the storage does: a step that is to run it does run it and goes on.  Its
\* result is {error, items: []} when there is no storage or the search
\* raises, {message: "No inventory items found for query: <q>", items: []}
\* when the search returns no rows, and otherwise {query, items_found,
\* items} with one item per row and items_found the number of items; every
\* result carries an items list.
C19_InventoryResult ==
    [][/\ \A t \in Turns : ChatLookupDue(t) =>
            /\ lookup' # NoLookup
            /\ lookup'.query = resp[t].tool_calls[idx[t]].arguments.query
            /\ pc'[t] = "loop" /\ out'.result.type = "none"
       /\ GenLookupDue =>
            /\ lookup' # NoLookup
            /\ lookup'.query = gresp.tool_calls[gidx].arguments.query
            /\ gpc' = "loop" /\ \A l \in Lanes : gout'[l].type = "none"
       /\ lookup' # NoLookup =>
            LET r == lookup'.result
                q == lookup'.query
                db == lookup'.db
            IN  /\ "items" \in DOMAIN r
                /\ db \in {"no_database", "search_raises"} =>
                    (DOMAIN r = {"error", "items"} /\ r.items = <<>>)
                /\ db = "no_items" =>
                    r = [message |-> <<"No inventory items found for query: ", q>>,
                         items |-> <<>>]
                /\ db = "items" =>
                    /\ DOMAIN r = {"query", "items_found", "items"}
                    /\ r.query = q
                    /\ r.items # <<>>
                    /\ Len(r.items) = Len(SearchRows(db))
                    /\ r.items_found = Len(r.items)]_vars

\* a search that returned no rows has been answered with the message
C19_NoItemsAnswered ==
    /\ lookup.db = "no_items"
    /\ lookup.query = "q1"
    /\ "message" \in DOMAIN lookup.result
    /\ gpc = "loop"

\* the payload of a search that raised
SearchError == [error |-> "Error fetching inventory data", items |-> <<>>]
\* the transcript holds the tool message of a search that raised
HoldsSearchError(msgs) ==
    \E i \in 1..Len(msgs) : msgs[i].role = "tool" /\ msgs[i].content = SearchError

C20_ReplyAfterFailedSearch ==
    /\ out.result.type = "message"
    /\ Known(store, out.req.session_id)
    /\ LET m == heap[store[out.req.session_id]].messages IN
        /\ Len(m) > 2
        /\ m[Len(m) - 1].role = "tool"
        /\ m[Len(m) - 1].content = SearchError

\* C21: a turn for a session id the store does not hold that passes a
\* customer profile but no project start fails with the session-not-found
\* error in the step that begins it, and no session is created for it.
C21_ProfileWithoutStartRefused ==
    [][\A r \in Requests :
        (/\ Begins(r) /\ ~Known(store, r.session_id)
         /\ ~NoProfile(r.customer_info) /\ r.project_start = NoDate) =>
            /\ out' = Outcome(r, Failure(SessionNotFound))
            /\ UNCHANGED <<store, heap, pc, req, sess>>]_vars

\* a session was created by a turn that passed a profile and no project
\* start, and the turn has reached its model call
C21_SessionWithoutStart ==
    \E t \in Turns :
        /\ pc[t] = "decide"
        /\ ~pre[t].present
        /\ req[t].project_start = NoDate
        /\ Known(store, req[t].session_id)
        /\ heap[store[req[t].session_id]].project_start = NoDate
        /\ heap[store[req[t].session_id]].customer_info = InfoB

\* ------------------------------------------------- properties: the endpoints
\* C22: a model call is never retried.  A step of a chat turn that issues a
\* model call either receives the answer and the turn goes on, or ends the
\* turn with the wrapped model failure; a step of generate_offer that issues
\* a model call issues exactly one and either goes on or ends the
\* invocation with the failure, and an ended invocation issues none; an
\* update whose parse call raises has made exactly that one call and
\* answers with the failure.
C22_NoAutomaticRetry ==
    [][/\ \A t \in Turns :
            (pc[t] # "idle" /\ lastCall' # NoCall /\ lastCall'.n = req[t].n) =>
                \/ pc'[t] # "idle" /\ ncalls'[t] = ncalls[t] + 1
                \/ /\ Ends(t)
                   /\ out'.req = req[t]
                   /\ ModelFailed(out'.result)
       /\ \A l \in Lanes :
            /\ GenCalls =>
                /\ gpc # "idle"
                /\ Len(gsent'[l]) = Len(gsent[l]) + 1
                /\ \/ gpc' # "idle"
                   \/ gout'[l].type = "error" /\ gout'[l].cause \in ParseErrors
            /\ (gpc = "idle" /\ gpc' = "idle") => gsent'[l] = gsent[l]
       /\ (served'.endpoint = "update" /\ served'.sent # <<>>
            /\ served'.input.kind = "raise") =>
                /\ Len(served'.sent) = 1
                /\ served'.generated = GenFailure(served'.input.error)
                /\ served'.code = ServerError
                /\ offers' = offers]_vars

\* an update has answered with the failure of its one parse call
C22_UpdateFailedAfterOneCall ==
    /\ served.endpoint = "update"
    /\ served.input.kind = "raise"
    /\ Len(served.sent) = 1
    /\ served.code = ServerError
    /\ \E i \in OfferIds : offers[i] # NoOffer /\ served.id = i

\* ------------------------------------------------- properties: session life
\* C23: every session that is created is eventually removed from the
\* store: whenever the store holds a session id, a later state does not
\* hold it.
C23_EverySessionRemoved ==
    \A s \in SessionIds : Known(store, s) ~> ~Known(store, s)

\* a turn has answered with a plain message, no turn is running, and the
\* session is held in the store, where nothing but a later final offer of
\* the same session removes it
C23_SessionLeftInStore ==
    /\ \A t \in Turns : pc[t] = "idle"
    /\ out # NoOutcome
    /\ out.result.type = "message"
    /\ Known(store, out.req.session_id)

\* ------------------------------------------------- properties: error kinds
\* the category of a failed turn, by what went wrong
Category(cause) ==
    IF cause = SessionNotFound THEN "client"
    ELSE IF cause \in ModelErrors THEN "retryable"
    ELSE "generation"
Failed(o) == o # NoOutcome /\ o.result.type = "error"

\* C24: failed chat turns of different categories (unknown session without
\* bootstrap fields, model unavailable or timed out, generation failure) are
\* reported as different error kinds: two failures handed to callers one
\* after the other that differ in category differ in the kind of exception
\* raised.
C24_CategoriesDistinguishable ==
    [][(/\ Failed(out) /\ Failed(out')
        /\ Category(out.result.cause) # Category(out'.result.cause)) =>
            out.result.exception # out'.result.exception]_vars

\* a turn for an unknown session without a profile is refused with the
\* same kind of exception a model failure is reported with
C24_RefusedAsPlainException ==
    /\ Failed(out)
    /\ out.result.cause = SessionNotFound
    /\ out.result.exception = Failure("model_unavailable").exception
    /\ ~Known(store, out.req.session_id)

\* ------------------------------------------------- properties: offers storage
\* C25: every stored offer has status Pending, Accepted or Done, whatever
\* sequence of generate, save, update, delete and toggle calls was served;
\* and a status toggle submitting any other value fails validation, runs no
\* statement against the offers table and leaves the table as it was.
C25_StatusWithinCycle ==
    [][/\ \A i \in OfferIds :
            offers'[i] # NoOffer => offers'[i].status \in {"Pending", "Accepted", "Done"}
       /\ (/\ served'.endpoint = "toggle-status"
           /\ served'.input \notin {"Pending", "Accepted", "Done"}) =>
                /\ served'.code = UnprocessableEntity
                /\ served'.statements = <<>>
                /\ offers' = offers]_vars

\* a toggle of a stored offer to a status outside the cycle was turned down
C25_InvalidToggleRefused ==
    /\ served.endpoint = "toggle-status"
    /\ served.input = "Cancelled"
    /\ served.code = UnprocessableEntity
    /\ served.id \in OfferIds
    /\ offers[served.id] # NoOffer
    /\ offers[served.id].status = "Accepted"

\* the call served by the step, or the last one served, is a toggle of
\* materials_ordered that reached the table
TogglesMaterials(call) == call.endpoint = "materials-ordered" /\ call.statements # <<>>

\* C26: toggle_materials_ordered is a boolean flip.  On a stored offer it
\* answers with the negation of the stored flag and stores it, touching
\* nothing else; a second toggle of the same offer right after the first
\* brings the flag back to what the first one found; on an id without an
\* offer it answers not-found and the table stays as it was.
C26_MaterialsToggleFlips ==
    [][TogglesMaterials(served') =>
        LET i == served'.id IN
        IF offers[i] = NoOffer
        THEN served'.code = NotFound /\ offers' = offers
        ELSE /\ served'.code = OK
             /\ served'.body.materials_ordered = ~offers[i].materials_ordered
             /\ offers' = [offers EXCEPT ![i].materials_ordered = ~offers[i].materials_ordered]
             /\ (TogglesMaterials(served) /\ served.code = OK /\ served.id = i) =>
                    offers'[i].materials_ordered = ~served.body.materials_ordered]_vars

\* an offer whose flag a toggle had set was toggled again: its flag is
\* unset, as it was when the offer was written
C26_ToggledBack ==
    /\ TogglesMaterials(served)
    /\ served.code = OK
    /\ served.body.materials_ordered = FALSE
    /\ offers[served.id].materials_ordered = FALSE

\* a toggle on an id without an offer was answered with not-found
C26_ToggleOnMissingOffer ==
    /\ TogglesMaterials(served)
    /\ served.code = NotFound
    /\ offers[served.id] = NoOffer
    /\ \E i \in OfferIds : offers[i] # NoOffer

\* C27: the generate endpoint never commits part of an offer.  When the
\* generator raises, at whichever step, the endpoint answers with a server
\* error, runs no statement and leaves the table as it was; the table
\* changes only when the generator has returned an offer, that offer is
\* complete, and exactly its row is inserted under a fresh id.
C27_NoPartialCommit ==
    [][served'.endpoint = "generate" =>
        /\ served'.generated.type = "error" =>
                /\ served'.code = ServerError
                /\ served'.statements = <<>>
                /\ offers' = offers
        /\ served'.code # OK => offers' = offers
        /\ offers' # offers =>
                /\ served'.generated.type = "offer"
                /\ CompleteOffer(served'.generated.offer)
                /\ served'.statements = <<Insert>>
                /\ \E i \in OfferIds :
                    /\ offers[i] = NoOffer
                    /\ offers' = [offers EXCEPT
                                    ![i] = RowOf(served'.generated.offer,
                                                 served'.input.user_id)]]_vars

\* generation failed for a request while an earlier offer is stored: the
\* table holds that offer and nothing of the failed request
C27_FailedGenerationWroteNothing ==
    /\ served.endpoint = "generate"
    /\ served.generated.type = "error"
    /\ served.input.customer_name = "Bob"
    /\ \E i \in OfferIds : offers[i] # NoOffer
    /\ \A i \in OfferIds : offers[i] # NoOffer => offers[i].customer_name # "Bob"

\* C28: an update of an id without an offer is answered not-found after the
\* one lookup, with no model call made and the table as it was; the model
\* is called only for a stored offer; when the generator raises, the
\* endpoint answers with a server error and the table stays as it was; the
\* table changes only when the generator has returned a complete offer, and
\* then exactly the row of that id is overwritten with it.
C28_UpdateNotFoundOrWhole ==
    [][served'.endpoint = "update" =>
        LET i == served'.id IN
        /\ (offers[i] = NoOffer /\ served'.statements # <<>>) =>
                /\ served'.code = NotFound
                /\ served'.statements = <<Select>>
                /\ served'.sent = <<>>
                /\ served'.generated = NoResult
                /\ offers' = offers
        /\ served'.sent # <<>> => offers[i] # NoOffer
        /\ served'.generated.type = "error" =>
                /\ served'.code = ServerError
                /\ offers' = offers
        /\ served'.code # OK => offers' = offers
        /\ offers' # offers =>
                /\ served'.generated.type = "offer"
                /\ CompleteOffer(served'.generated.offer)
                /\ offers[i] # NoOffer
                /\ offers' = [offers EXCEPT
                                ![i] = RowOf(served'.generated.offer, offers[i].user_id)]]_vars

\* an update of an id without an offer was answered not-found while another
\* offer is stored
C28_UpdateOfMissingOffer ==
    /\ served.endpoint = "update"
    /\ served.code = NotFound
    /\ served.sent = <<>>
    /\ offers[served.id] = NoOffer
    /\ \E i \in OfferIds : offers[i] # NoOffer

\* an update whose parse call raised left the stored offer in place
C28_FailedUpdateKeptOffer ==
    /\ served.endpoint = "update"
    /\ served.generated.type = "error"
    /\ served.code = ServerError
    /\ offers[served.id] # NoOffer

\* an update overwrote the stored offer with the one the generator returned
C28_OfferOverwritten ==
    /\ served.endpoint = "update"
    /\ served.code = OK
    /\ served.generated.type = "offer"
    /\ offers[served.id] = RowOf(served.generated.offer, offers[served.id].user_id)
    /\ offers[served.id].status = "Accepted"

\* ------------------------------------------------- properties: session data
\* C29: the customer profile and the project start a session holds do not
\* change while the session is in the store: over every step that keeps a
\* session id in the store, both are what they were, whatever customer_info
\* and project_start the turns on that session pass.
C29_ProfileAndStartImmutable ==
    [][\A s \in SessionIds :
        (Known(store, s) /\ Known(store', s)) =>
            /\ heap'[store'[s]].customer_info = heap[store[s]].customer_info
            /\ heap'[store'[s]].project_start = heap[store[s]].project_start]_vars

\* a turn on a stored session passed another profile and another project
\* start, and has reached its model call with the session holding the
\* values it was created with
C29_OtherProfilePassed ==
    \E t \in Turns :
        /\ pc[t] = "decide"
        /\ pre[t].present
        /\ req[t].customer_info = InfoB
        /\ req[t].project_start = "2025-04-01"
        /\ heap[sess[t]].customer_info = InfoA
        /\ heap[sess[t]].project_start = "2025-03-01"

\* a is an initial part of b
IsPrefix(a, b) == Len(a) <= Len(b) /\ SubSeq(b, 1, Len(a)) = a

\* C30: the transcript of a session only grows.  Over every step that keeps
\* a session id in the store, what the session's transcript held is an
\* initial part of what it holds afterwards; the first entry of a stored
\* transcript is the system prompt; and every model call of a turn is made
\* over the stored transcript, which by then holds, right after what the
\* turn found, the user message of the turn.
C30_TranscriptAppendOnly ==
    [][/\ \A s \in SessionIds :
            /\ Known(store', s) =>
                /\ heap'[store'[s]].messages # <<>>
                /\ heap'[store'[s]].messages[1] = [role |-> "system",
                                                   content |-> "chat_system_prompt"]
            /\ (Known(store, s) /\ Known(store', s)) =>
                IsPrefix(heap[store[s]].messages, heap'[store'[s]].messages)
       /\ \A t \in Turns :
            (pc[t] # "idle" /\ lastCall' # NoCall /\ lastCall'.n = req[t].n) =>
                /\ lastCall'.messages = heap[sess[t]].messages
                /\ IsPrefix(Base(t), lastCall'.messages)
                /\ Base(t)[Len(Base(t))] = [role |-> "user", content |-> req[t].message]]_vars

\* a later turn on a stored session has made its model call over the
\* transcript of the turns before it and its own user message
C30_LaterTurnCalledModel ==
    \E t \in Turns :
        /\ pre[t].present
        /\ Len(pre[t].messages) >= 3
        /\ pc[t] \in {"plain", "tools"}
        /\ lastCall.n = req[t].n
        /\ Len(lastCall.messages) = Len(pre[t].messages) + 1

\* ------------------------------------------------- properties: transcript form
\* m[j] is the first user or assistant message after m[i]
NextSpoken(m, i, j) ==
    /\ j > i
    /\ m[j].role \in {"user", "assistant"}
    /\ \A k \in (i + 1)..(j - 1) : m[k].role \notin {"user", "assistant"}

\* C31: in every stored transcript, an assistant message with tool calls
\* is followed, before the next user or assistant message, by exactly one
\* tool message for each of its call ids.
C31_ToolCallsAnsweredInTranscript ==
    \A s \in SessionIds :
        Known(store, s) =>
            LET m == heap[store[s]].messages IN
            \A i \in 1..Len(m) :
                "tool_calls" \in DOMAIN m[i] =>
                    \A j \in 1..Len(m) :
                        NextSpoken(m, i, j) =>
                            \A c \in 1..Len(m[i].tool_calls) :
                                Cardinality({k \in (i + 1)..(j - 1) :
                                    /\ m[k].role = "tool"
                                    /\ m[k].tool_call_id = m[i].tool_calls[c].id}) = 1

\* a turn whose response called an unhandled tool has returned the
\* follow-up text: the stored transcript holds the tool-call message and,
\* right after it, the assistant's text, with no tool message in between
C31_UnhandledCallLeftOpen ==
    /\ out.result.type = "message"
    /\ Known(store, out.req.session_id)
    /\ LET m == heap[store[out.req.session_id]].messages IN
        /\ Len(m) >= 4
        /\ "tool_calls" \in DOMAIN m[Len(m) - 1]
        /\ m[Len(m) - 1].tool_calls[1].name = "other_tool"
        /\ m[Len(m)] = [role |-> "assistant", content |-> out.result.message]

\* a turn whose generate_final_offer call did not validate has failed, and
\* the next turn's user message follows the unanswered tool-call message
C31_FailedOfferCallLeftOpen ==
    \E s \in SessionIds :
        /\ Known(store, s)
        /\ LET m == heap[store[s]].messages IN
            \E i \in 1..Len(m) :
                /\ i < Len(m)
                /\ "tool_calls" \in DOMAIN m[i]
                /\ m[i].tool_calls[1].name = "generate_final_offer"
                /\ m[i + 1].role = "user"

\* ------------------------------------------------- properties: interleavings
\* C32: in every interleaving of turns, a turn returns an offer only in the
\* step that removes its session id from the store, so that between a
\* creation and the deletion that follows it one offer at most is returned
\* for the id; and a turn that has its session never puts anything into the
\* store: what enters the store enters it in the creation step of a first
\* turn, as a new session built from that turn's own request, never as the
\* session another turn deleted.
C32_OneOfferPerLifetime ==
    [][/\ \A t \in Turns :
            (Ends(t) /\ out'.result.type = "offer") =>
                /\ Known(store, req[t].session_id)
                /\ ~Known(store', req[t].session_id)
       /\ \A s \in SessionIds :
            (Known(store', s) /\ store'[s] # store[s]) =>
                \E t \in Turns :
                    /\ pc[t] = "create" /\ pc'[t] = "load"
                    /\ req[t].session_id = s
                    /\ heap[store'[s]] = NoSession
                    /\ heap'[store'[s]] =
                        [messages |-> <<[role |-> "system",
                                         content |-> "chat_system_prompt"]>>,
                         customer_info |-> req[t].customer_info,
                         project_start |-> req[t].project_start]]_vars

\* of two turns running on one session at once, one has returned the offer
\* and removed the session, and the other is at its own generate_final_offer
\* call
C32_TurnRunningAfterDeletion ==
    \E t \in Turns :
        /\ pc[t] = "loop"
        /\ idx[t] <= Len(resp[t].tool_calls)
        /\ resp[t].tool_calls[idx[t]].name = "generate_final_offer"
        /\ OfferValidates(heap[sess[t]].project_start, resp[t].tool_calls[idx[t]].arguments)
        /\ ~Known(store, req[t].session_id)
        /\ out.result.type = "offer"
        /\ out.req.session_id = req[t].session_id

\* turn t has appended its user message and has not returned
PastAppend(t) == pc[t] \in {"decide", "plain", "tools", "loop", "followup"}
\* the transcript holds message m
Holds(msgs, m) == \E i \in 1..Len(msgs) : msgs[i] = m

\* C33: two first turns for one unknown session id, both with a profile,
\* running at once, create one session: no step replaces the session a
\* session id stands for by another, and once both turns have appended
\* their user message the stored transcript holds both messages.
C33_ConcurrentCreationSafe ==
    [][/\ \A s \in SessionIds :
            (Known(store, s) /\ Known(store', s)) => store'[s] = store[s]
       /\ \A t, u \in Turns :
            (/\ t # u
             /\ PastAppend(t)' /\ PastAppend(u)'
             /\ ~pre'[t].present /\ ~pre'[u].present
             /\ req'[t].session_id = req'[u].session_id
             /\ Known(store', req'[t].session_id)) =>
                LET m == heap'[store'[req'[t].session_id]].messages IN
                /\ Holds(m, [role |-> "user", content |-> req'[t].message])
                /\ Holds(m, [role |-> "user", content |-> req'[u].message])]_vars

\* two first turns for one id have each created a session: the store holds
\* the second, and the first turn's user message is in a transcript the
\* store no longer reaches
C33_FirstSessionOverwritten ==
    \E t, u \in Turns :
        /\ t # u
        /\ PastAppend(t) /\ PastAppend(u)
        /\ ~pre[t].present /\ ~pre[u].present
        /\ req[t].session_id = req[u].session_id
        /\ sess[t] # sess[u]
        /\ store[req[t].session_id] = sess[u]
        /\ ~Holds(heap[sess[u]].messages, [role |-> "user", content |-> req[t].message])

\* ------------------------------------------------- properties: mixed responses
\* the response calls both tools
CallsBothTools(calls) ==
    /\ HasFinalOffer(calls)
    /\ \E i \in 1..Len(calls) : calls[i].name = "get_inventory_data"

\* C34: a turn whose decision response holds get_inventory_data calls and
\* generate_final_offer calls (well formed up to the first of these) ends
\* at the first generate_final_offer call in call order: it never goes
\* past that call, and it ends there by returning {type: offer} with the
\* session id gone from the store, after its one model call and without a
\* follow-up call.
C34_EndsAtFirstFinalOffer ==
    [][\A t \in Turns :
        (/\ pc[t] = "loop"
         /\ CallsBothTools(resp[t].tool_calls)
         /\ FinalOfferWellFormed(resp[t].tool_calls)) =>
            /\ idx'[t] <= FirstFinalOffer(resp[t].tool_calls) \/ Ends(t)
            /\ Ends(t) =>
                /\ idx[t] = FirstFinalOffer(resp[t].tool_calls)
                /\ out'.result.type = "offer"
                /\ ~Known(store', req[t].session_id)
                /\ ncalls[t] = 1
                /\ lastCall' = NoCall
                /\ searches' = 0]_vars

\* a turn whose response called get_inventory_data and then
\* generate_final_offer has failed at the second call, on a session created
\* without a project start: the session is still stored, its transcript
\* ending with the tool message of the first call
C34_MixedResponseFailed ==
    /\ out.result = Failure("ValidationError")
    /\ Known(store, out.req.session_id)
    /\ heap[store[out.req.session_id]].project_start = NoDate
    /\ LET m == heap[store[out.req.session_id]].messages IN
        /\ Len(m) >= 4
        /\ m[Len(m)].role = "tool"
        /\ "tool_calls" \in DOMAIN m[Len(m) - 1]
        /\ Len(m[Len(m) - 1].tool_calls) = 2
        /\ m[Len(m) - 1].tool_calls[2].name = "generate_final_offer"

\* ------------------------------------------------- properties: session id reuse
\* C35: a session id reused after its session was deleted by a returned
\* offer starts fresh.  The first turn sent for the id after the offer, with
\* a profile, finds the id unknown and no session object of it left, and is
\* taken up as a creation; it does not fail on its way to the model call,
\* and when it reaches the call the store holds for the id exactly the
\* system prompt and the new user message, with the profile and the project
\* start this turn passed.
C35_ReusedIdStartsFresh ==
    [][/\ \A r \in Requests :
            (/\ out.result.type = "offer"
             /\ Begins(r)
             /\ r.session_id = out.req.session_id
             /\ ~NoProfile(r.customer_info)) =>
                /\ ~Known(store, r.session_id)
                /\ \A o \in Objs :
                    heap[o] # NoSession => \E s \in SessionIds \ {r.session_id} : store[s] = o
                /\ \E t \in Turns :
                    req'[t] = r /\ pc'[t] = "create" /\ pre'[t].after_offer
       /\ \A t \in Turns :
            (pc[t] \in {"create", "load", "append"} /\ pre[t].after_offer) =>
                /\ pc'[t] # "idle"
                /\ pc'[t] = "decide" =>
                    /\ Known(store', req[t].session_id)
                    /\ heap'[store'[req[t].session_id]] =
                         [messages |-> <<[role |-> "system", content |-> "chat_system_prompt"],
                                         [role |-> "user", content |-> req[t].message]>>,
                          customer_info |-> req[t].customer_info,
                          project_start |-> req[t].project_start]]_vars

\* after an offer for the id, a first turn with another profile and another
\* project start has reached its model call
C35_ReusedIdAtModelCall ==
    \E t \in Turns :
        /\ pc[t] = "decide"
        /\ pre[t].after_offer
        /\ req[t].customer_info = InfoB
        /\ req[t].project_start = "2025-04-01"
        /\ Len(heap[store[req[t].session_id]].messages) = 2
Stored(tbl) == {i \in OfferIds : tbl[i] /= NoOffer}

\* C37: a save answered 200 for an id the table did not hold leaves the saved
\* offer under the id it returns, and the same save made again straight
\* after it adds no row.
C37_SaveReturnsStoredId ==
    [][(/\ served'.endpoint = "save"
        /\ served'.code = OK)
       => /\ offers[served'.id] = NoOffer
             => offers'[served'.body.id] = RowOf(served'.input, "u2")
          /\ (/\ served.endpoint = "save"
              /\ served.code = OK
              /\ served.id = served'.id
              /\ served.input = served'.input)
             => Cardinality(Stored(offers')) = Cardinality(Stored(offers))]_vars

\* a save has been answered 200 with an id under which the table holds nothing
C37_ReturnedIdNotStored ==
    /\ served.endpoint = "save"
    /\ served.code = OK
    /\ offers[served.id] = NoOffer
    /\ Stored(offers) /= {}

\* ------------------------------------------------------------------- C38
\* C38: a delete whose statement ran is answered 404 and leaves the table as
\* it was when the id is not stored, never 500; when the id is stored it is
\* answered 200 and removes that row and no other.
C38_DeleteMissingIsNotFound ==
    [][(/\ served'.endpoint = "delete"
        /\ served'.statements = <<Delete>>)
       => IF offers[served'.id] = NoOffer
          THEN /\ served'.code = NotFound
               /\ offers' = offers
          ELSE /\ served'.code = OK
               /\ offers' = [offers EXCEPT ![served'.id] = NoOffer]]_vars

\* a delete of an id the table did not hold has been answered as a server
\* error although its statement ran
C38_MissingDeleteAnswered500 ==
    /\ served.endpoint = "delete"
    /\ served.statements = <<Delete>>
    /\ served.code = ServerError
    /\ served.body = "404: offer not found"

\* ------------------------------------------------------------------- C39
IdentityFields == {"customer_name", "phone_number", "address", "resource"}

====
